---- MODULE Spec2Model ----
(***************************************************************************)
(* Model of the session lifecycle of the WebLLM chat kernel                *)
(* (src/src/index.ts, class WebLLMChatKernel and its callers).             *)
(*                                                                         *)
(* The program is single-threaded JavaScript: an async method runs         *)
(* synchronously up to its next await, and the continuation after an await *)
(* is a job on the microtask queue.  The model keeps that queue (mq) and   *)
(* the reaction list of every initialization promise (waiters), both in    *)
(* FIFO order.  One action is one synchronous run of code between awaits.  *)
(* Engine construction, engine unload and the completion stream belong to  *)
(* the external engine: their settlement is an action of the environment.  *)
(* Such an event, like a new call from the host, is a task of the event    *)
(* loop: it runs when the microtask queue has been drained (Quiescent).    *)
(***************************************************************************)
EXTENDS Integers, Sequences, FiniteSets, TLC

\* ---------------------------------------------------------------- bounds
MaxCalls == 3        \* send/setModel calls made in one behaviour
MaxChunks == 2       \* chunks delivered to the sends that have not returned
MaxText == 5         \* length of the text of a cell, in symbols
MaxBroken == 2       \* packages that a shared scope fails to provide
MaxVersions == 2     \* versions of a package in the share scope a host seeds
MaxResolves == 2     \* resolutions of a shared module asked for one after the other
MaxWrap == 3         \* promises and functions around the module a factory gives

\* one task per call, numbered in the order in which the calls are made;
\* any number of them may be in progress at the same time
Tasks == 1..MaxCalls
Engines == 1..MaxCalls      \* a call makes at most one construction call

\* ------------------------------------------------------------ models.ts
NULL == "null"
WEBLLM_MODELS == <<"A", "B">>
DEFAULT_WEBLLM_MODEL == WEBLLM_MODELS[1]
isValidWebLLMModel(id) == \E i \in 1..Len(WEBLLM_MODELS) : WEBLLM_MODELS[i] = id

\* names a caller may pass to setModel / values the settings may hold
ModelArgs == {"A", "B", "X"}
SettingValues == {"", "A", "B", "X"}

\* delta.content of one stream chunk, as a sequence of characters
\* (<<>> is a chunk whose content is missing or empty)
Fragments == {<<>>, <<"a">>, <<"b", "c">>}

\* The text of a cell is a sequence of symbols: the words the %chat magic
\* knows, a model id and the blank.  Symbols written without a blank
\* between them form one longer word.
Alphabet == {"%chat", "list", "model", "models", "help", "A", " "}
Texts == UNION {[1..n -> Alphabet] : n \in 0..MaxText}

VARIABLES
  created,                \* a WebLLMChatKernel instance exists
  modelName,              \* this.modelName
  engine,                 \* this.engine (0 = null, else engine id)
  initialized,            \* this.initialized
  initializationPromise,  \* this.initializationPromise (0 = null, else id)
  settingsDefaultModel,   \* module-level settingsDefaultModel
  eng,                    \* per construction call: promise state and engine
  waiters,                \* per initialization promise: awaiting tasks, FIFO
  mq,                     \* microtask queue
  task,                   \* per caller: position and locals
  nCalls,                 \* calls started so far
  sendCalled,             \* some send() has been called
  setModelCalled,         \* some setModel() has been called
  optionsModel,           \* options.model given to the kernel's constructor
  sharedScope,            \* federation: the stored share scope (NULL = null)
  load,                   \* federation: container.get and the bundle loader
  accScope,               \* shareScope.ts: the stored share scope
  factoryLog,             \* the factory calls made by the direct resolutions
  outcome                 \* what the last direct resolution gave

vars == <<created, modelName, engine, initialized, initializationPromise,
          settingsDefaultModel, eng, waiters, mq, task, nCalls,
          sendCalled, setModelCalled, optionsModel, sharedScope, load,
          accScope, factoryLog, outcome>>

\* the share-scope accessor of shareScope.ts and the record of the
\* resolutions that were asked for one by one
accessor == <<accScope, factoryLog, outcome>>

\* what belongs to the host page rather than to one chat session
host == <<created, optionsModel, sharedScope, load, accessor>>

session == <<modelName, engine, initialized, initializationPromise>>

NoEngine == [st |-> "unused", model |-> NULL, unloadCalls |-> 0, unloaded |-> FALSE]

\* no response of the %chat magic
NoOut == [kind |-> "none", filter |-> <<>>, models |-> <<>>, total |-> 0,
          status |-> NULL, name |-> NULL]

\* executeRequest has not returned
NoReply == [status |-> NULL, ename |-> NULL, evalue |-> NULL, hint |-> FALSE]

\*   request:   the call is an executeRequest of a kernel
\*   content:   the reply message that executeRequest has returned
\*   published: calls of publishExecuteError made by that executeRequest
IdleTask == [pc |-> "idle", op |-> "none", arg |-> NULL, wasInitialized |-> FALSE,
             h |-> 0, aw |-> 0, via |-> "none", stale |-> FALSE, sEng |-> 0,
             emitted |-> <<>>, reply |-> <<>>, cb |-> <<>>, res |-> "none",
             code |-> <<>>, prompts |-> <<>>, out |-> NoOut,
             request |-> FALSE, content |-> NoReply, published |-> 0]

\* the shared packages the loader asks for first, in the order of its awaits;
\* without any one of them the plugin cannot be built
RequiredImports ==
  <<"@jupyterlite/kernel", "@lumino/widgets", "@jupyterlab/apputils",
    "react", "@jupyterlab/ui-components">>

\* the shared packages the loader asks for inside a try/catch
OptionalImports == <<"@jupyterlab/settingregistry", "@jupyterlab/ui-components">>

Imports == RequiredImports \o OptionalImports

Packages == {Imports[i] : i \in 1..Len(Imports)}

\* what a shared scope holds for one package: no key, a key without
\* versions, a version without a factory, a factory that throws or rejects,
\* a factory that gives the module
Entries == {"absent", "noversions", "nofactory", "throws", "ok"}

\* the shared scopes a host hands over: at most MaxBroken packages of the
\* loader are not provided properly
ScopeEntries ==
  {e \in [Packages -> Entries] :
     Cardinality({p \in Packages : e[p] # "ok"}) <= MaxBroken}

\* sharedScope === null
NoScope == [seeded |-> FALSE, entry |-> [p \in Packages |-> "absent"]]

Scope(e) == [seeded |-> TRUE, entry |-> e]

\* window.__webpack_share_scopes__.default: missing, or some scope
GlobalScopes == {NoScope} \cup {Scope(e) : e \in ScopeEntries}

\* shareScope.ts: sharedScope === null.  `given` is the scope as the host
\* passed it to setSharedScope, `entry` the same table as it is now
NoAccScope == [seeded |-> FALSE, entry |-> <<>>, given |-> <<>>]

\* no resolution has been asked for
NoOutcome == [by |-> "none", name |-> NULL, status |-> "none", value |-> <<>>, n |-> 0]

\* the bundle ids a host asks the container for
ModuleIds == {"./index", "./extension", "./other"}

\* no container.get has been made
\*   got, module: result and argument of the last container.get
\*   pc, step:    position of the last started loader (step: index of the
\*                import it awaits)
\*   invoked:     packages whose factory that loader has called, in order
\*   plugin:      that loader has built the plugin and returned the exports
\*   registered:  its plugin has registered the kernel
\*   kernelspecs: activate was given a kernelspecs with a register function
\*   settingRegistry, formRendererRegistry: the third and fourth argument
\*                that activate was given (NULL: none)
\*   loaded:      the defaultModel setting activate has loaded (NULL: none)
\*   prev:        how the run before that one had ended
NoLoad == [got |-> "none", module |-> NULL, pc |-> "none", step |-> 0,
           prev |-> "none",
           error |-> NULL, invoked |-> <<>>,
           ISettingRegistry |-> NULL, IFormRendererRegistry |-> NULL,
           plugin |-> FALSE, registered |-> FALSE, kernelspecs |-> FALSE,
           settingRegistry |-> NULL, formRendererRegistry |-> NULL,
           loaded |-> NULL]

TaskJob(t) == [kind |-> "task", id |-> t]
ThenJob(k) == [kind |-> "then", id |-> k]

RECURSIVE JobsOf(_)
JobsOf(ws) == IF ws = <<>> THEN <<>> ELSE <<TaskJob(Head(ws))>> \o JobsOf(Tail(ws))

RECURSIVE Concat(_)
Concat(ss) == IF ss = <<>> THEN <<>> ELSE Head(ss) \o Concat(Tail(ss))

NonEmpty(c) == c # <<>>

\* the call of task t has settled; its caller's continuation is a pending
\* microtask
Settled(t) == task[t].pc \in {"done", "failed"}

\* no microtask is pending: the event loop takes its next task
Quiescent == mq = <<>> /\ \A t \in Tasks : ~Settled(t)

\* chunks delivered so far to the sends that have not returned
ChunksHeld ==
  Cardinality({p \in Tasks \X (1..MaxChunks) : p[2] <= Len(task[p[1]].emitted)})

\* id of the next construction call
NextEngine == Cardinality({k \in Engines : eng[k].st # "unused"}) + 1

\* the promise stored in initializationPromise has not settled yet
Unsettled(k) == eng[k].st \in {"constructing", "built", "builtfail"}

getDefaultModel == IF settingsDefaultModel # NULL THEN settingsDefaultModel
                   ELSE DEFAULT_WEBLLM_MODEL

Init ==
  /\ created = FALSE
  /\ modelName = NULL
  /\ engine = 0
  /\ initialized = FALSE
  /\ initializationPromise = 0
  /\ settingsDefaultModel = NULL
  /\ eng = [k \in Engines |-> NoEngine]
  /\ waiters = [k \in Engines |-> <<>>]
  /\ mq = <<>>
  /\ task = [t \in Tasks |-> IdleTask]
  /\ nCalls = 0
  /\ sendCalled = FALSE
  /\ setModelCalled = FALSE
  /\ optionsModel = NULL
  /\ sharedScope = NoScope
  /\ load = NoLoad
  /\ accScope = NoAccScope
  /\ factoryLog = <<>>
  /\ outcome = NoOutcome

\* a constructor that starts loading the default model at once
CreateKernel_Eager ==
  /\ ~created
  /\ created' = TRUE
  /\ modelName' = getDefaultModel
  /\ engine' = 0
  /\ initialized' = FALSE
  /\ initializationPromise' = 1
  /\ eng' = [eng EXCEPT ![1] = [@ EXCEPT !.st = "constructing", !.model = getDefaultModel]]
  /\ UNCHANGED <<settingsDefaultModel, waiters, mq, task, nCalls,
                 sendCalled, setModelCalled, optionsModel, sharedScope, load, accessor>>

\* constructor: no engine, no initialization
CreateKernel ==
  /\ ~created /\ nCalls = 0
  /\ created' = TRUE
  /\ modelName' = NULL
  /\ engine' = 0
  /\ initialized' = FALSE
  /\ initializationPromise' = 0
  /\ UNCHANGED <<settingsDefaultModel, eng, waiters, mq, task, nCalls,
                 sendCalled, setModelCalled, optionsModel, sharedScope, load, accessor>>

\* values of options.model at the creation of a kernel (NULL: not given)
OptionModels == {NULL, "A", "B"}

\* WebLLMLiteKernel.constructor(options): super(options), then
\* `new WebLLMChatKernel()`, to which nothing of options is passed
CreateLiteKernel(model) ==
  /\ ~created /\ nCalls = 0
  /\ optionsModel' = model
  /\ created' = TRUE
  /\ modelName' = NULL
  /\ engine' = 0
  /\ initialized' = FALSE
  /\ initializationPromise' = 0
  /\ UNCHANGED <<settingsDefaultModel, eng, waiters, mq, task, nCalls,
                 sendCalled, setModelCalled, sharedScope, load, accessor>>

\* updateSettings: a valid, non-empty setting replaces the stored default
UpdateSettings(model) ==
  /\ Quiescent
  /\ model # "" /\ isValidWebLLMModel(model)
  /\ settingsDefaultModel # model
  /\ settingsDefaultModel' = model
  /\ UNCHANGED <<host, session, eng, waiters, mq, task, nCalls,
                 sendCalled, setModelCalled>>

\* `await p`: the continuation is a reaction of p while p is unsettled,
\* and a microtask at once when p has already settled
AwaitPromise(t, p, tk, label, mq0) ==
  /\ task' = [task EXCEPT ![t] =
                [tk EXCEPT !.pc = label, !.aw = p, !.stale = (eng[p].st = "rejected")]]
  /\ IF Unsettled(p)
     THEN /\ waiters' = [waiters EXCEPT ![p] = Append(@, t)]
          /\ mq' = mq0
     ELSE /\ mq' = Append(mq0, TaskJob(t))
          /\ UNCHANGED waiters

\* initializeModel lines 286-304: CreateMLCEngine(...).then(...), await
Construct(t, m, tk, mq0) ==
  LET k == NextEngine IN
  /\ modelName' = m
  /\ eng' = [eng EXCEPT ![k] = [@ EXCEPT !.st = "constructing", !.model = m]]
  /\ initializationPromise' = k
  /\ waiters' = [waiters EXCEPT ![k] = <<t>>]
  /\ mq' = mq0
  /\ task' = [task EXCEPT ![t] = [tk EXCEPT !.pc = "im_wait_own", !.aw = k,
                                             !.stale = FALSE]]

\* initializeModel without lines 275-284: it never waits for an
\* initialization that is in flight
InitializeModel_NoSingleFlight(t, m, tk, prom, mq0) ==
  IF ~isValidWebLLMModel(m)
  THEN /\ task' = [task EXCEPT ![t] = [tk EXCEPT !.pc = "im_throw", !.res = "invalid"]]
       /\ mq' = Append(mq0, TaskJob(t))
       /\ initializationPromise' = prom
       /\ UNCHANGED <<modelName, eng, waiters>>
  ELSE Construct(t, m, [tk EXCEPT !.via = "own"], mq0)

\* initializeModel, from its entry to its first await (or throw).
\* prom is the value of this.initializationPromise at entry.
InitializeModel(t, m, tk, prom, mq0) ==
  IF ~isValidWebLLMModel(m)
  THEN /\ task' = [task EXCEPT ![t] = [tk EXCEPT !.pc = "im_throw", !.res = "invalid"]]
       /\ mq' = Append(mq0, TaskJob(t))
       /\ initializationPromise' = prom
       /\ UNCHANGED <<modelName, eng, waiters>>
  ELSE IF prom # 0 /\ modelName = m
  THEN /\ AwaitPromise(t, prom, [tk EXCEPT !.via = "same"], "im_wait_same", mq0)
       /\ initializationPromise' = prom
       /\ UNCHANGED <<modelName, eng>>
  ELSE IF prom # 0
  THEN /\ AwaitPromise(t, prom, [tk EXCEPT !.via = "other"], "im_wait_other", mq0)
       /\ initializationPromise' = prom
       /\ UNCHANGED <<modelName, eng>>
  ELSE Construct(t, m, [tk EXCEPT !.via = "own"], mq0)

\* send lines 358-374: engine check, then chat.completions.create
SendRequest(t, tk, mq0) ==
  /\ task' = [task EXCEPT ![t] =
       IF engine = 0
       THEN [tk EXCEPT !.pc = "failed", !.res = "noengine"]
       ELSE [tk EXCEPT !.pc = "s_create", !.sEng = engine]]
  /\ mq' = mq0

\* send lines 350-356, for a caller whose locals are tk
SendFrom(t, tk) ==
  IF ~initialized \/ engine = 0
  THEN /\ InitializeModel(t, getDefaultModel, [tk EXCEPT !.arg = getDefaultModel],
                          initializationPromise, mq)
       /\ UNCHANGED <<engine, initialized>>
  ELSE /\ SendRequest(t, [tk EXCEPT !.via = "ready"], mq)
       /\ UNCHANGED <<session, eng, waiters>>

\* send(prompt, onChunk), up to its first await
SendCall(t) ==
  /\ Quiescent /\ created /\ task[t].pc = "idle" /\ t = nCalls + 1
  /\ nCalls' = t
  /\ sendCalled' = TRUE
  /\ SendFrom(t, [IdleTask EXCEPT !.op = "send"])
  /\ UNCHANGED <<host, settingsDefaultModel, setModelCalled>>

\* a setModel that unloads the engine before it looks at the name
SetModelFrom_UnloadFirst(t, m, tk0) ==
  LET tk == [tk0 EXCEPT !.op = "setModel", !.arg = m,
                        !.wasInitialized = initialized] IN
  IF engine # 0
  THEN /\ task' = [task EXCEPT ![t] = [tk EXCEPT !.pc = "sm_unload", !.h = engine]]
       /\ eng' = [eng EXCEPT ![engine] = [@ EXCEPT !.unloadCalls = @ + 1]]
       /\ UNCHANGED <<session, waiters, mq>>
  ELSE IF ~isValidWebLLMModel(m)
  THEN /\ task' = [task EXCEPT ![t] = [tk EXCEPT !.pc = "failed", !.res = "invalid"]]
       /\ UNCHANGED <<session, eng, waiters, mq>>
  ELSE /\ InitializeModel(t, m, tk, initializationPromise, mq)
       /\ UNCHANGED <<engine, initialized>>

\* a setModel that fails the sends that are reading from the engine it
\* unloads
SetModelFrom_AbortsSends(t, m, tk0) ==
  LET tk == [tk0 EXCEPT !.op = "setModel", !.arg = m,
                        !.wasInitialized = initialized] IN
  IF ~isValidWebLLMModel(m)
  THEN /\ task' = [task EXCEPT ![t] = [tk EXCEPT !.pc = "failed", !.res = "invalid"]]
       /\ UNCHANGED <<session, eng, waiters, mq>>
  ELSE IF engine # 0
  THEN /\ task' = [u \in Tasks |->
                    IF u = t THEN [tk EXCEPT !.pc = "sm_unload", !.h = engine]
                    ELSE IF task[u].pc \in {"s_create", "s_stream"}
                            /\ task[u].sEng = engine
                    THEN [task[u] EXCEPT !.pc = "failed", !.res = "streamfail"]
                    ELSE task[u]]
       /\ eng' = [eng EXCEPT ![engine] = [@ EXCEPT !.unloadCalls = @ + 1]]
       /\ UNCHANGED <<session, waiters, mq>>
  ELSE /\ InitializeModel(t, m, tk, initializationPromise, mq)
       /\ UNCHANGED <<engine, initialized>>

\* setModel lines 312-327, for a caller whose locals are tk
SetModelFrom(t, m, tk0) ==
  LET tk == [tk0 EXCEPT !.op = "setModel", !.arg = m,
                        !.wasInitialized = initialized] IN
  IF ~isValidWebLLMModel(m)
  THEN /\ task' = [task EXCEPT ![t] = [tk EXCEPT !.pc = "failed", !.res = "invalid"]]
       /\ UNCHANGED <<session, eng, waiters, mq>>
  ELSE IF engine # 0
  THEN /\ task' = [task EXCEPT ![t] = [tk EXCEPT !.pc = "sm_unload", !.h = engine]]
       /\ eng' = [eng EXCEPT ![engine] = [@ EXCEPT !.unloadCalls = @ + 1]]
       /\ UNCHANGED <<session, waiters, mq>>
  ELSE /\ InitializeModel(t, m, tk, initializationPromise, mq)
       /\ UNCHANGED <<engine, initialized>>

\* ------------------------------------------ WebLLMLiteKernel.handleMagic
\* a character that \s matches
IsSpace(c) == c = " "

RECURSIVE TrimStart(_)
TrimStart(s) == IF s # <<>> /\ IsSpace(Head(s)) THEN TrimStart(Tail(s)) ELSE s

RECURSIVE TrimEnd(_)
TrimEnd(s) ==
  IF s # <<>> /\ IsSpace(s[Len(s)]) THEN TrimEnd(SubSeq(s, 1, Len(s) - 1)) ELSE s

\* String.prototype.trim
trim(s) == TrimEnd(TrimStart(s))

\* String.prototype.toLowerCase: of the symbols, only the ids have capitals
toLowerCase(s) ==
  [i \in 1..Len(s) |-> IF s[i] = "A" THEN "a" ELSE IF s[i] = "B" THEN "b" ELSE s[i]]

\* String.prototype.includes
includes(s, sub) ==
  \E i \in 0..(Len(s) - Len(sub)) : SubSeq(s, i + 1, i + Len(sub)) = sub

\* a model id, its text, and the name that a word of a cell spells
Spell(id) == <<id>>
NameOf(w) == IF Len(w) = 1 THEN w[1] ELSE "X"

\* /^%chat\s+/ : what follows "%chat" and the blanks after it, in a text
\* that has been trimmed (<<>> when the text does not begin that way)
AfterChat(s) ==
  IF Len(s) >= 2 /\ s[1] = "%chat" /\ IsSpace(s[2]) THEN TrimStart(Tail(s)) ELSE <<>>

\* trimmed.match(/^%chat\s+list(?:\s+(.+))?$/): cap is the capture group,
\* <<>> when it did not take part in the match
listMatch(s) ==
  LET r == AfterChat(s) IN
  IF r # <<>> /\ r[1] = "list" /\ (Len(r) = 1 \/ IsSpace(r[2]))
  THEN [ok |-> TRUE, cap |-> TrimStart(Tail(r))]
  ELSE [ok |-> FALSE, cap |-> <<>>]

\* a router that does not know "%chat model <name>"
modelMatch_Never(s) == [ok |-> FALSE, cap |-> <<>>]

\* trimmed.match(/^%chat\s+model\s+(\S+)$/)
modelMatch(s) ==
  LET r == AfterChat(s)
      w == IF r = <<>> THEN <<>> ELSE TrimStart(Tail(r)) IN
  IF /\ Len(r) >= 3 /\ r[1] = "model" /\ IsSpace(r[2])
     /\ \A i \in 1..Len(w) : ~IsSpace(w[i])
  THEN [ok |-> TRUE, cap |-> w]
  ELSE [ok |-> FALSE, cap |-> <<>>]

\* a filter that compares with the ids as they are written
filterModels_CaseSensitive(filter) ==
  IF filter # <<>>
  THEN SelectSeq(WEBLLM_MODELS, LAMBDA id : includes(Spell(id), filter))
  ELSE WEBLLM_MODELS

\* lines 412-414: the models whose lower-cased id includes the filter
filterModels(filter) ==
  IF filter # <<>>
  THEN SelectSeq(WEBLLM_MODELS, LAMBDA id : includes(toLowerCase(Spell(id)), filter))
  ELSE WEBLLM_MODELS

\* a router whose bare "model" reports a current model as soon as a name is
\* stored
handleMagic_ByName(code) ==
  LET trimmed == trim(code)
      l == listMatch(trimmed)
      m == modelMatch(trimmed)
      filter == toLowerCase(l.cap)
      filtered == filterModels(filter)
  IN
  IF l.ok \/ trimmed = <<"%chat", " ", "list">>
  THEN [NoOut EXCEPT !.kind = IF Len(filtered) = 0 THEN "nomatch" ELSE "list",
                     !.filter = filter, !.models = filtered,
                     !.total = Len(WEBLLM_MODELS)]
  ELSE IF trimmed = <<"%chat", " ", "model">> \/ trimmed = <<"%chat", " ", "models">>
  THEN [NoOut EXCEPT !.kind = "show",
                     !.status = IF modelName # NULL THEN "current" ELSE "default",
                     !.name = IF modelName # NULL THEN modelName ELSE getDefaultModel]
  ELSE IF m.ok
  THEN [NoOut EXCEPT !.kind = "model", !.name = NameOf(m.cap)]
  ELSE IF trimmed = <<"%chat">> \/ trimmed = <<"%chat", " ", "help">>
  THEN [NoOut EXCEPT !.kind = "help"]
  ELSE [NoOut EXCEPT !.kind = "null"]

\* handleMagic lines 406-461, up to the call of setModel: the response, the
\* model to set (kind "model"), or null (kind "null": not a magic command)
handleMagic(code) ==
  LET trimmed == trim(code)
      l == listMatch(trimmed)
      m == modelMatch(trimmed)
      filter == toLowerCase(l.cap)
      filtered == filterModels(filter)
  IN
  IF l.ok \/ trimmed = <<"%chat", " ", "list">>
  THEN [NoOut EXCEPT !.kind = IF Len(filtered) = 0 THEN "nomatch" ELSE "list",
                     !.filter = filter, !.models = filtered,
                     !.total = Len(WEBLLM_MODELS)]
  ELSE IF trimmed = <<"%chat", " ", "model">> \/ trimmed = <<"%chat", " ", "models">>
  THEN [NoOut EXCEPT !.kind = "show",
                     !.status = IF initialized THEN "current" ELSE "default",
                     !.name = IF initialized THEN modelName ELSE getDefaultModel]
  ELSE IF m.ok
  THEN [NoOut EXCEPT !.kind = "model", !.name = NameOf(m.cap)]
  ELSE IF trimmed = <<"%chat">> \/ trimmed = <<"%chat", " ", "help">>
  THEN [NoOut EXCEPT !.kind = "help"]
  ELSE [NoOut EXCEPT !.kind = "null"]

\* a kernel that answers a magic and also makes the default model current
Respond_SetsModel(t, tk, magic) ==
  /\ task' = [task EXCEPT ![t] =
       [tk EXCEPT !.op = "magic", !.pc = "done", !.res = "handled", !.out = magic]]
  /\ modelName' = getDefaultModel
  /\ UNCHANGED <<engine, initialized, initializationPromise, eng, waiters, mq>>

\* executeRequest lines 469-482: the response of the magic goes to stdout,
\* the reply is ok
Respond(t, tk, magic) ==
  /\ task' = [task EXCEPT ![t] =
       [tk EXCEPT !.op = "magic", !.pc = "done", !.res = "handled", !.out = magic]]
  /\ UNCHANGED <<session, eng, waiters, mq>>

\* a kernel that sends the trimmed text
Forward_Trimmed(t, tk, code) ==
  SendFrom(t, [tk EXCEPT !.op = "send", !.prompts = Append(@, trim(code))])

\* executeRequest line 486: `this.chat.send(code, ...)`
Forward(t, tk, code) ==
  SendFrom(t, [tk EXCEPT !.op = "send", !.prompts = Append(@, code)])

\* executeRequest(content), up to its first await that is not settled at
\* once: handleMagic, then setModel, send, or the response of the magic
ExecuteRequest(t, code) ==
  LET magic == handleMagic(code)
      tk == [IdleTask EXCEPT !.code = code, !.request = TRUE] IN
  /\ Quiescent /\ created /\ task[t].pc = "idle" /\ t = nCalls + 1
  /\ nCalls' = t
  /\ IF magic.kind = "model"
     THEN /\ SetModelFrom(t, magic.name, tk)
          /\ setModelCalled' = TRUE
          /\ UNCHANGED sendCalled
     ELSE IF magic.kind = "null"
     THEN /\ Forward(t, tk, code)
          /\ sendCalled' = TRUE
          /\ UNCHANGED setModelCalled
     ELSE /\ Respond(t, tk, magic)
          /\ UNCHANGED <<sendCalled, setModelCalled>>
  /\ UNCHANGED <<host, settingsDefaultModel>>

\* setModel(modelName), up to its first await
SetModelCall(t, m) ==
  /\ Quiescent /\ created /\ task[t].pc = "idle" /\ t = nCalls + 1
  /\ nCalls' = t
  /\ setModelCalled' = TRUE
  /\ SetModelFrom(t, m, IdleTask)
  /\ UNCHANGED <<host, settingsDefaultModel, sendCalled>>

\* the engine finishes unload(): the handle is torn down, setModel resumes
UnloadDone(t) ==
  /\ Quiescent
  /\ task[t].pc = "sm_unload"
  /\ eng' = [eng EXCEPT ![task[t].h] = [@ EXCEPT !.unloaded = TRUE]]
  /\ task' = [task EXCEPT ![t] = [@ EXCEPT !.pc = "sm_unloaded"]]
  /\ mq' = Append(mq, TaskJob(t))
  /\ UNCHANGED <<host, session, settingsDefaultModel, waiters, nCalls,
                 sendCalled, setModelCalled>>

\* setModel without line 322: the old handle stays installed
SetModelAfterUnload_KeepEngine(t) ==
  /\ mq # <<>> /\ Head(mq) = TaskJob(t) /\ task[t].pc = "sm_unloaded"
  /\ engine' = engine
  /\ initialized' = FALSE
  /\ InitializeModel(t, task[t].arg, task[t], 0, Tail(mq))
  /\ UNCHANGED <<host, settingsDefaultModel, nCalls, sendCalled, setModelCalled>>

\* setModel without line 323: the session still claims to be initialized
SetModelAfterUnload_KeepInitialized(t) ==
  /\ mq # <<>> /\ Head(mq) = TaskJob(t) /\ task[t].pc = "sm_unloaded"
  /\ engine' = 0
  /\ initialized' = initialized
  /\ InitializeModel(t, task[t].arg, task[t], 0, Tail(mq))
  /\ UNCHANGED <<host, settingsDefaultModel, nCalls, sendCalled, setModelCalled>>

\* setModel lines 322-327: clear local state, then initializeModel
SetModelAfterUnload(t) ==
  /\ mq # <<>> /\ Head(mq) = TaskJob(t) /\ task[t].pc = "sm_unloaded"
  /\ engine' = 0
  /\ initialized' = FALSE
  /\ InitializeModel(t, task[t].arg, task[t], 0, Tail(mq))
  /\ UNCHANGED <<host, settingsDefaultModel, nCalls, sendCalled, setModelCalled>>

\* CreateMLCEngine resolves: the .then callback becomes a microtask
EngineCreated(k) ==
  /\ Quiescent
  /\ eng[k].st = "constructing"
  /\ eng' = [eng EXCEPT ![k] = [@ EXCEPT !.st = "built"]]
  /\ mq' = Append(mq, ThenJob(k))
  /\ UNCHANGED <<host, session, settingsDefaultModel, waiters, task, nCalls,
                 sendCalled, setModelCalled>>

\* CreateMLCEngine rejects: the derived promise rejects one microtask later
EngineFailed(k) ==
  /\ Quiescent
  /\ eng[k].st = "constructing"
  /\ eng' = [eng EXCEPT ![k] = [@ EXCEPT !.st = "builtfail"]]
  /\ mq' = Append(mq, ThenJob(k))
  /\ UNCHANGED <<host, session, settingsDefaultModel, waiters, task, nCalls,
                 sendCalled, setModelCalled>>

\* the .then callback of lines 298-302 installs the engine; the promise
\* settles and its reactions are queued in registration order
RunThen(k) ==
  /\ mq # <<>> /\ Head(mq) = ThenJob(k)
  /\ IF eng[k].st = "built"
     THEN /\ engine' = k
          /\ initialized' = TRUE
          /\ eng' = [eng EXCEPT ![k] = [@ EXCEPT !.st = "fulfilled"]]
     ELSE /\ eng' = [eng EXCEPT ![k] = [@ EXCEPT !.st = "rejected"]]
          /\ UNCHANGED <<engine, initialized>>
  /\ mq' = Tail(mq) \o JobsOf(waiters[k])
  /\ waiters' = [waiters EXCEPT ![k] = <<>>]
  /\ UNCHANGED <<host, modelName, initializationPromise, settingsDefaultModel,
                 task, nCalls, sendCalled, setModelCalled>>

\* initializeModel throws out of an await: the caller's await rejects
InitThrow(t, mq0) ==
  /\ task' = [task EXCEPT ![t] = [@ EXCEPT !.pc = "im_throw", !.res = "constructfail"]]
  /\ mq' = Append(mq0, TaskJob(t))

\* initializeModel returns: the caller's await resolves
InitReturn(t, mq0) ==
  /\ task' = [task EXCEPT ![t] = [@ EXCEPT !.pc = "im_ret"]]
  /\ mq' = Append(mq0, TaskJob(t))

\* lines 276-279: the awaited initialization of the same model has settled
InitWaitSameResume(t) ==
  /\ mq # <<>> /\ Head(mq) = TaskJob(t) /\ task[t].pc = "im_wait_same"
  /\ IF eng[task[t].aw].st = "rejected"
     THEN InitThrow(t, Tail(mq))
     ELSE InitReturn(t, Tail(mq))
  /\ UNCHANGED <<host, session, settingsDefaultModel, eng, waiters, nCalls,
                 sendCalled, setModelCalled>>

\* lines 282-304: the awaited initialization of another model has settled;
\* execution continues at line 286 without looking at the session again
InitWaitOtherResume(t) ==
  /\ mq # <<>> /\ Head(mq) = TaskJob(t) /\ task[t].pc = "im_wait_other"
  /\ IF eng[task[t].aw].st = "rejected"
     THEN /\ InitThrow(t, Tail(mq))
          /\ UNCHANGED <<modelName, initializationPromise, eng, waiters>>
     ELSE Construct(t, task[t].arg, task[t], Tail(mq))
  /\ UNCHANGED <<host, engine, initialized, settingsDefaultModel, nCalls,
                 sendCalled, setModelCalled>>

\* lines 304-305: the caller's own initialization has settled
InitOwnResume(t) ==
  /\ mq # <<>> /\ Head(mq) = TaskJob(t) /\ task[t].pc = "im_wait_own"
  /\ IF eng[task[t].aw].st = "rejected"
     THEN /\ InitThrow(t, Tail(mq))
          /\ UNCHANGED initializationPromise
     ELSE /\ InitReturn(t, Tail(mq))
          /\ initializationPromise' = 0
  /\ UNCHANGED <<host, modelName, engine, initialized, settingsDefaultModel,
                 eng, waiters, nCalls, sendCalled, setModelCalled>>

\* send after `await this.initializeModel(defaultModel)`
SendAfterInit(t) ==
  /\ mq # <<>> /\ Head(mq) = TaskJob(t)
  /\ task[t].pc = "im_ret" /\ task[t].op = "send"
  /\ SendRequest(t, task[t], Tail(mq))
  /\ UNCHANGED <<host, session, settingsDefaultModel, eng, waiters, nCalls,
                 sendCalled, setModelCalled>>

\* setModel lines 329-333: the confirmation string
SetModelAfterInit(t) ==
  /\ mq # <<>> /\ Head(mq) = TaskJob(t)
  /\ task[t].pc = "im_ret" /\ task[t].op = "setModel"
  /\ task' = [task EXCEPT ![t] = [@ EXCEPT !.pc = "done",
                !.res = IF task[t].wasInitialized THEN "changed" ELSE "set"]]
  /\ mq' = Tail(mq)
  /\ UNCHANGED <<host, session, settingsDefaultModel, eng, waiters, nCalls,
                 sendCalled, setModelCalled>>

\* the failure of initializeModel reaches the caller of send / setModel
CallerThrow(t) ==
  /\ mq # <<>> /\ Head(mq) = TaskJob(t) /\ task[t].pc = "im_throw"
  /\ task' = [task EXCEPT ![t] = [@ EXCEPT !.pc = "failed"]]
  /\ mq' = Tail(mq)
  /\ UNCHANGED <<host, session, settingsDefaultModel, eng, waiters, nCalls,
                 sendCalled, setModelCalled>>

\* chat.completions.create resolves with the stream
StreamCreated(t) ==
  /\ Quiescent
  /\ task[t].pc = "s_create"
  /\ task' = [task EXCEPT ![t] = [@ EXCEPT !.pc = "s_stream"]]
  /\ UNCHANGED <<host, session, settingsDefaultModel, eng, waiters, mq, nCalls,
                 sendCalled, setModelCalled>>

\* a loop body that hands the chunks to the callback in the wrong order
StreamChunk_Reorder(t, content) ==
  /\ Quiescent /\ ChunksHeld < MaxChunks
  /\ task[t].pc = "s_stream"
  /\ task' = [task EXCEPT ![t] =
       IF NonEmpty(content)
       THEN [@ EXCEPT !.emitted = Append(@, content),
                      !.reply = @ \o content,
                      !.cb = <<content>> \o @]
       ELSE [@ EXCEPT !.emitted = Append(@, content)]]
  /\ UNCHANGED <<host, session, settingsDefaultModel, eng, waiters, mq, nCalls,
                 sendCalled, setModelCalled>>

\* one iteration of the for-await loop, lines 377-385
StreamChunk(t, content) ==
  /\ Quiescent /\ ChunksHeld < MaxChunks
  /\ task[t].pc = "s_stream"
  /\ task' = [task EXCEPT ![t] =
       IF NonEmpty(content)
       THEN [@ EXCEPT !.emitted = Append(@, content),
                      !.reply = @ \o content,
                      !.cb = Append(@, content)]
       ELSE [@ EXCEPT !.emitted = Append(@, content)]]
  /\ UNCHANGED <<host, session, settingsDefaultModel, eng, waiters, mq, nCalls,
                 sendCalled, setModelCalled>>

\* the stream ends: send returns reply
StreamEnd(t) ==
  /\ Quiescent
  /\ task[t].pc = "s_stream"
  /\ task' = [task EXCEPT ![t] = [@ EXCEPT !.pc = "done", !.res = "reply"]]
  /\ UNCHANGED <<host, session, settingsDefaultModel, eng, waiters, mq, nCalls,
                 sendCalled, setModelCalled>>

\* a send that catches the failure and resolves with what it has so far
StreamFail_PartialReply(t) ==
  /\ Quiescent
  /\ task[t].pc \in {"s_create", "s_stream"}
  /\ task' = [task EXCEPT ![t] = [@ EXCEPT !.pc = "done", !.res = "streamfail"]]
  /\ UNCHANGED <<host, session, settingsDefaultModel, eng, waiters, mq, nCalls,
                 sendCalled, setModelCalled>>

\* the completion request or the stream fails: send rejects
StreamFail(t) ==
  /\ Quiescent
  /\ task[t].pc \in {"s_create", "s_stream"}
  /\ task' = [task EXCEPT ![t] = [@ EXCEPT !.pc = "failed", !.res = "streamfail"]]
  /\ UNCHANGED <<host, session, settingsDefaultModel, eng, waiters, mq, nCalls,
                 sendCalled, setModelCalled>>

\* executeRequest lines 476-482, 495-501 and 502-521: the reply message
\* for a call that has settled.  An error of setModel has passed through
\* the catch of handleMagic (442-444), which appends the hint to run
\* "%chat list".
executeReply(tk) ==
  IF tk.pc = "failed"
  THEN [status |-> "error", ename |-> "Error", evalue |-> tk.res,
        hint |-> tk.op = "setModel"]
  ELSE [status |-> "ok", ename |-> NULL, evalue |-> NULL, hint |-> FALSE]

\* an executeRequest that answers ok whatever happened
Return_DropsFailure(t) ==
  /\ mq = <<>>
  /\ Settled(t)
  /\ task' = [task EXCEPT ![t] =
       IF task[t].request
       THEN [IdleTask EXCEPT !.pc = "returned", !.request = TRUE,
               !.content = [NoReply EXCEPT !.status = "ok"]]
       ELSE [IdleTask EXCEPT !.pc = "returned"]]
  /\ UNCHANGED <<host, session, settingsDefaultModel, eng, waiters, mq, nCalls,
                 sendCalled, setModelCalled>>

\* The call is over: its caller goes on. An executeRequest returns its
\* reply; on the way through its catch block (502-521) it has published
\* one execute-error.
Return(t) ==
  /\ mq = <<>>
  /\ Settled(t)
  /\ task' = [task EXCEPT ![t] =
       IF task[t].request
       THEN [IdleTask EXCEPT !.pc = "returned", !.request = TRUE,
               !.content = executeReply(task[t]),
               !.published = IF task[t].pc = "failed" THEN 1 ELSE 0]
       ELSE [IdleTask EXCEPT !.pc = "returned"]]
  /\ UNCHANGED <<host, session, settingsDefaultModel, eng, waiters, mq, nCalls,
                 sendCalled, setModelCalled>>

\* ------------------------------------------------- ChatHttpKernel.send
\* availability() values of the built-in-ai model
Availabilities == {"unavailable", "downloadable", "downloading", "available"}

\* HttpLiteKernel.executeRequest(content): `this.chat.send(code, ...)` in a
\* try block, up to `await this.model.availability()` in send
HttpExecuteRequest(t) ==
  /\ Quiescent /\ ~created /\ task[t].pc = "idle" /\ t = nCalls + 1
  /\ nCalls' = t
  /\ task' = [task EXCEPT ![t] =
       [IdleTask EXCEPT !.op = "httpSend", !.pc = "h_avail", !.request = TRUE]]
  /\ UNCHANGED <<host, session, settingsDefaultModel, eng, waiters, mq,
                 sendCalled, setModelCalled>>

\* ChatHttpKernel.send, up to `await this.model.availability()`; the host
\* runs either this kernel or the WebLLM kernel, never both
HttpSendCall(t) ==
  /\ Quiescent /\ ~created /\ task[t].pc = "idle" /\ t = nCalls + 1
  /\ nCalls' = t
  /\ task' = [task EXCEPT ![t] = [IdleTask EXCEPT !.op = "httpSend", !.pc = "h_avail"]]
  /\ UNCHANGED <<host, session, settingsDefaultModel, eng, waiters, mq,
                 sendCalled, setModelCalled>>

\* a send that tells the user through the chunk callback before it fails
HttpAvailability_Notify(t, a) ==
  /\ Quiescent
  /\ task[t].pc = "h_avail"
  /\ task' = [task EXCEPT ![t] =
       IF a = "unavailable"
       THEN [@ EXCEPT !.pc = "failed", !.res = "unavailable", !.cb = << <<"a">> >>]
       ELSE IF a \in {"downloadable", "downloading"} THEN [@ EXCEPT !.pc = "h_session"]
       ELSE [@ EXCEPT !.pc = "h_stream"]]
  /\ UNCHANGED <<host, session, settingsDefaultModel, eng, waiters, mq, nCalls,
                 sendCalled, setModelCalled>>

\* the availability is known: fail, create the session first, or stream
HttpAvailability(t, a) ==
  /\ Quiescent
  /\ task[t].pc = "h_avail"
  /\ task' = [task EXCEPT ![t] =
       IF a = "unavailable" THEN [@ EXCEPT !.pc = "failed", !.res = "unavailable"]
       ELSE IF a \in {"downloadable", "downloading"} THEN [@ EXCEPT !.pc = "h_session"]
       ELSE [@ EXCEPT !.pc = "h_stream"]]
  /\ UNCHANGED <<host, session, settingsDefaultModel, eng, waiters, mq, nCalls,
                 sendCalled, setModelCalled>>

\* createSessionWithProgress resolves, streamText is called
HttpSessionCreated(t) ==
  /\ Quiescent
  /\ task[t].pc = "h_session"
  /\ task' = [task EXCEPT ![t] = [@ EXCEPT !.pc = "h_stream"]]
  /\ UNCHANGED <<host, session, settingsDefaultModel, eng, waiters, mq, nCalls,
                 sendCalled, setModelCalled>>

\* one iteration of `for await (const chunk of result.textStream)`
HttpStreamChunk(t, chunk) ==
  /\ Quiescent /\ ChunksHeld < MaxChunks
  /\ task[t].pc = "h_stream"
  /\ task' = [task EXCEPT ![t] = [@ EXCEPT !.emitted = Append(@, chunk),
                                            !.reply = @ \o chunk,
                                            !.cb = Append(@, chunk)]]
  /\ UNCHANGED <<host, session, settingsDefaultModel, eng, waiters, mq, nCalls,
                 sendCalled, setModelCalled>>

\* the text stream ends: send returns reply
HttpStreamEnd(t) ==
  /\ Quiescent
  /\ task[t].pc = "h_stream"
  /\ task' = [task EXCEPT ![t] = [@ EXCEPT !.pc = "done", !.res = "reply"]]
  /\ UNCHANGED <<host, session, settingsDefaultModel, eng, waiters, mq, nCalls,
                 sendCalled, setModelCalled>>

\* session creation, streamText or the text stream fails: send rejects
HttpStreamFail(t) ==
  /\ Quiescent
  /\ task[t].pc \in {"h_session", "h_stream"}
  /\ task' = [task EXCEPT ![t] = [@ EXCEPT !.pc = "failed", !.res = "streamfail"]]
  /\ UNCHANGED <<host, session, settingsDefaultModel, eng, waiters, mq, nCalls,
                 sendCalled, setModelCalled>>

\* The lifecycle of one WebLLM kernel under sends and model switches, with
\* the stored default fixed and the streams carrying no chunks (the chunks
\* are in NextStream, the settings in NextSettings).
Next ==
  \/ CreateKernel
  \/ \E t \in Tasks : SendCall(t)
  \/ \E t \in Tasks, m \in ModelArgs : SetModelCall(t, m)
  \/ \E t \in Tasks : UnloadDone(t)
  \/ \E t \in Tasks : SetModelAfterUnload(t)
  \/ \E k \in Engines : EngineCreated(k)
  \/ \E k \in Engines : EngineFailed(k)
  \/ \E k \in Engines : RunThen(k)
  \/ \E t \in Tasks : InitWaitSameResume(t)
  \/ \E t \in Tasks : InitWaitOtherResume(t)
  \/ \E t \in Tasks : InitOwnResume(t)
  \/ \E t \in Tasks : SendAfterInit(t)
  \/ \E t \in Tasks : SetModelAfterInit(t)
  \/ \E t \in Tasks : CallerThrow(t)
  \/ \E t \in Tasks : StreamCreated(t)
  \/ \E t \in Tasks : StreamEnd(t)
  \/ \E t \in Tasks : StreamFail(t)
  \/ \E t \in Tasks : Return(t)

Spec == Init /\ [][Next]_vars

\* The lifecycle together with changes of the settings-derived default.
NextSettings ==
  \/ Next
  \/ \E v \in SettingValues : UpdateSettings(v)

SpecSettings == Init /\ [][NextSettings]_vars

\* Concurrent sends only: every caller asks initializeModel for the same
\* default model.
NextSend ==
  \/ CreateKernel
  \/ \E t \in Tasks : SendCall(t)
  \/ \E k \in Engines : EngineCreated(k)
  \/ \E k \in Engines : EngineFailed(k)
  \/ \E k \in Engines : RunThen(k)
  \/ \E t \in Tasks : InitWaitSameResume(t)
  \/ \E t \in Tasks : InitOwnResume(t)
  \/ \E t \in Tasks : SendAfterInit(t)
  \/ \E t \in Tasks : CallerThrow(t)
  \/ \E t \in Tasks : StreamCreated(t)
  \/ \E t \in Tasks : StreamEnd(t)
  \/ \E t \in Tasks : StreamFail(t)
  \/ \E t \in Tasks : Return(t)

SpecSend == Init /\ [][NextSend]_vars

\* Sends to a kernel created with or without options.model, under changes
\* of the settings-derived default.
NextDefault ==
  \/ NextSend
  \/ \E o \in OptionModels : CreateLiteKernel(o)
  \/ \E v \in SettingValues : UpdateSettings(v)

SpecDefault == Init /\ [][NextDefault]_vars

\* The first request to a new kernel, over every text.
NextMagic ==
  \/ CreateKernel
  \/ created /\ nCalls = 0 /\ \E code \in Texts : ExecuteRequest(1, code)
  \/ Return(1)

SpecMagic == Init /\ [][NextMagic]_vars

\* texts of the requests of the lifecycle below: one for every route of
\* the magic (a known and an unknown model name), and a prompt
SampleTexts == {<<"%chat">>, <<"%chat", " ", "help">>, <<"%chat", " ", "list">>,
                <<"%chat", " ", "model">>, <<"%chat", " ", "model", " ", "A">>,
                <<"%chat", " ", "model", " ", "list">>, <<"A">>}

\* The lifecycle of one WebLLM kernel under execute requests.
NextRequests ==
  \/ CreateKernel
  \/ \E t \in Tasks, code \in SampleTexts : ExecuteRequest(t, code)
  \/ \E t \in Tasks : UnloadDone(t)
  \/ \E t \in Tasks : SetModelAfterUnload(t)
  \/ \E k \in Engines : EngineCreated(k)
  \/ \E k \in Engines : EngineFailed(k)
  \/ \E k \in Engines : RunThen(k)
  \/ \E t \in Tasks : InitWaitSameResume(t)
  \/ \E t \in Tasks : InitOwnResume(t)
  \/ \E t \in Tasks : SendAfterInit(t)
  \/ \E t \in Tasks : SetModelAfterInit(t)
  \/ \E t \in Tasks : CallerThrow(t)
  \/ \E t \in Tasks : StreamCreated(t)
  \/ \E t \in Tasks : StreamEnd(t)
  \/ \E t \in Tasks : StreamFail(t)
  \/ \E t \in Tasks : Return(t)

SpecRequests == Init /\ [][NextRequests]_vars

\* texts of the requests of the lifecycle below: the bare "model" and
\* "models", a switch to the other model, and a prompt
ShowTexts == {<<"%chat", " ", "model">>, <<" ", "%chat", " ", "models">>,
              <<"%chat", " ", "model", " ", "B">>, <<"A">>}

\* The lifecycle of one WebLLM kernel under execute requests that ask for
\* the current model, while the settings change the default.
NextShow ==
  \/ CreateKernel
  \/ \E v \in SettingValues : UpdateSettings(v)
  \/ \E t \in Tasks, code \in ShowTexts : ExecuteRequest(t, code)
  \/ \E t \in Tasks : UnloadDone(t)
  \/ \E t \in Tasks : SetModelAfterUnload(t)
  \/ \E k \in Engines : EngineCreated(k)
  \/ \E k \in Engines : EngineFailed(k)
  \/ \E k \in Engines : RunThen(k)
  \/ \E t \in Tasks : InitWaitSameResume(t)
  \/ \E t \in Tasks : InitWaitOtherResume(t)
  \/ \E t \in Tasks : InitOwnResume(t)
  \/ \E t \in Tasks : SendAfterInit(t)
  \/ \E t \in Tasks : SetModelAfterInit(t)
  \/ \E t \in Tasks : CallerThrow(t)
  \/ \E t \in Tasks : StreamCreated(t)
  \/ \E t \in Tasks : StreamEnd(t)
  \/ \E t \in Tasks : StreamFail(t)
  \/ \E t \in Tasks : Return(t)

SpecShow == Init /\ [][NextShow]_vars

\* Execute requests to the kernel the host has chosen: WebLLMLiteKernel or
\* HttpLiteKernel.
NextReply ==
  \/ NextRequests
  \/ \E t \in Tasks : HttpExecuteRequest(t)
  \/ \E t \in Tasks, a \in Availabilities : HttpAvailability(t, a)
  \/ \E t \in Tasks : HttpSessionCreated(t)
  \/ \E t \in Tasks : HttpStreamEnd(t)
  \/ \E t \in Tasks : HttpStreamFail(t)

SpecReply == Init /\ [][NextReply]_vars

\* The two send implementations, WebLLMChatKernel.send and
\* ChatHttpKernel.send, each in the kernel the host has chosen, with the
\* text of the chunks varied.
NextStream ==
  \/ NextSend
  \/ \E t \in Tasks, c \in Fragments : StreamChunk(t, c)
  \/ \E t \in Tasks : HttpSendCall(t)
  \/ \E t \in Tasks, a \in Availabilities : HttpAvailability(t, a)
  \/ \E t \in Tasks : HttpSessionCreated(t)
  \/ \E t \in Tasks, c \in Fragments : HttpStreamChunk(t, c)
  \/ \E t \in Tasks : HttpStreamEnd(t)
  \/ \E t \in Tasks : HttpStreamFail(t)

SpecStream == Init /\ [][NextStream]_vars

\* ===================================================================
\* The federation container: container.init, container.get, the loader
\* that container.get returns, and the activation of the plugin it builds
\* ===================================================================

\* importShared(pkg) against a scope: "ok" when the module is returned,
\* else the check that throws
importShared(scope, pkg) ==
  IF ~scope.seeded THEN "notseeded" ELSE scope.entry[pkg]

\* importShared reaches `factory()` for the package
FactoryCalled(scope, pkg) == importShared(scope, pkg) \in {"throws", "ok"}

\* container.init(scope): sharedScope = scope. A host seeds the container
\* before or after it asks for a bundle, and may seed it again, with a
\* scope that has changed, between two runs of a loader.
ContainerInit(e) ==
  /\ load.pc # "importing"
  /\ sharedScope' = Scope(e)
  /\ UNCHANGED <<accessor, created, optionsModel, load, session, settingsDefaultModel,
                 eng, waiters, mq, task, nCalls, sendCalled, setModelCalled>>

\* a container that hands out its loader whatever is asked for
ContainerGet_AnyModule(module) ==
  /\ load.pc # "importing"
  /\ load' = [load EXCEPT !.got = "loader", !.module = module]
  /\ UNCHANGED <<accessor, created, optionsModel, sharedScope, session,
                 settingsDefaultModel, eng, waiters, mq, task, nCalls,
                 sendCalled, setModelCalled>>

\* container.get(module): the loader for "./index" and "./extension", an
\* error for anything else; nothing is imported yet
ContainerGet(module) ==
  /\ load.pc # "importing"
  /\ IF module = "./index" \/ module = "./extension"
     THEN load' = [load EXCEPT !.got = "loader", !.module = module]
     ELSE load' = [load EXCEPT !.got = "UnknownBundle", !.module = module]
  /\ UNCHANGED <<accessor, created, optionsModel, sharedScope, session,
                 settingsDefaultModel, eng, waiters, mq, task, nCalls,
                 sendCalled, setModelCalled>>

\* a loader that keeps the exports it has built and returns them again
LoaderStart_Cached ==
  /\ load.got = "loader" /\ load.pc # "importing"
  /\ load' = IF load.plugin
             THEN [load EXCEPT !.prev = load.pc, !.pc = "exported"]
             ELSE [NoLoad EXCEPT !.got = "loader", !.module = load.module,
                                 !.pc = "importing", !.step = 1,
                                 !.prev = load.pc]
  /\ UNCHANGED <<accessor, created, optionsModel, sharedScope, session,
                 settingsDefaultModel, eng, waiters, mq, task, nCalls,
                 sendCalled, setModelCalled>>

\* the host calls the loader it was given: a new run, at its first import
LoaderStart ==
  /\ load.got = "loader" /\ load.pc # "importing"
  /\ load' = [NoLoad EXCEPT !.got = "loader", !.module = load.module,
                            !.pc = "importing", !.step = 1,
                            !.prev = load.pc]
  /\ UNCHANGED <<accessor, created, optionsModel, sharedScope, session,
                 settingsDefaultModel, eng, waiters, mq, task, nCalls,
                 sendCalled, setModelCalled>>

\* a loader whose every import stands outside a try/catch
Required_All(step) == TRUE

\* the import stands outside the try/catch blocks
Required(step) == step <= Len(RequiredImports)

\* the variable an optional import fills in
Token(step) ==
  IF step = Len(RequiredImports) + 1 THEN "ISettingRegistry"
  ELSE "IFormRendererRegistry"

\* the loader after import `step` has resolved: the next import, or, after
\* the last one, the plugin object and the export record
Proceed(ld, step, token) ==
  LET filled == IF Required(step) \/ token = NULL THEN ld
                ELSE IF Token(step) = "ISettingRegistry"
                THEN [ld EXCEPT !.ISettingRegistry = "ISettingRegistry"]
                ELSE [ld EXCEPT !.IFormRendererRegistry = "IFormRendererRegistry"]
  IN IF step < Len(Imports)
     THEN [filled EXCEPT !.step = step + 1]
     ELSE [filled EXCEPT !.step = step + 1, !.pc = "exported", !.plugin = TRUE]

\* a loader that goes on to the next import when a required one fails
LoaderImport_KeepsGoing(global) ==
  LET step == load.step
      pkg == Imports[step]
      scope == IF sharedScope.seeded THEN sharedScope ELSE global
      r == importShared(scope, pkg)
      ld == [load EXCEPT !.invoked = IF FactoryCalled(scope, pkg)
                                      THEN Append(@, pkg) ELSE @]
  IN /\ load.pc = "importing"
     /\ sharedScope' = scope
     /\ load' = IF r = "ok" THEN Proceed(ld, step, pkg)
                ELSE Proceed(ld, step, NULL)
     /\ UNCHANGED <<accessor, created, optionsModel, session, settingsDefaultModel,
                    eng, waiters, mq, task, nCalls, sendCalled, setModelCalled>>

\* one `await importShared(pkg)` of the loader. With no scope stored,
\* importShared adopts the global scope `global` if there is one. A failure
\* of a required import leaves the loader; a failure of an optional one is
\* caught and leaves its variable null.
LoaderImport(global) ==
  LET step == load.step
      pkg == Imports[step]
      scope == IF sharedScope.seeded THEN sharedScope ELSE global
      r == importShared(scope, pkg)
      ld == [load EXCEPT !.invoked = IF FactoryCalled(scope, pkg)
                                      THEN Append(@, pkg) ELSE @]
  IN /\ load.pc = "importing"
     /\ sharedScope' = scope
     /\ load' = IF r = "ok" THEN Proceed(ld, step, pkg)
                ELSE IF Required(step)
                THEN [ld EXCEPT !.pc = "failed", !.error = r]
                ELSE Proceed(ld, step, NULL)
     /\ UNCHANGED <<accessor, created, optionsModel, session, settingsDefaultModel,
                    eng, waiters, mq, task, nCalls, sendCalled, setModelCalled>>

\* optional: [ISettingRegistry, IFormRendererRegistry].filter(Boolean)
OptionalTokens(ld) ==
  SelectSeq(<<ld.ISettingRegistry, ld.IFormRendererRegistry>>,
            LAMBDA tok : tok # NULL)

\* the defaultModel setting as the host has it: a value, NULL when the host
\* has no setting registry, LoadFails when settingRegistry.load rejects
LoadFails == "loadfails"

HostSettings == SettingValues \cup {NULL, LoadFails}

\* the service the host has for a token of the `optional` list (NULL: none)
Service(token, setting, form) ==
  IF token = "ISettingRegistry"
  THEN IF setting = NULL THEN NULL ELSE "settingRegistry"
  ELSE IF form THEN "formRendererRegistry" ELSE NULL

\* the argument of activate that stands for the i-th optional token: the
\* host passes the services in the order of the `optional` list
OptionalArg(optional, i, setting, form) ==
  IF i <= Len(optional) THEN Service(optional[i], setting, form) ELSE NULL

\* lines 613-628: the value that updateSettings reads when activate loads
\* the settings, NULL when it does not get that far (no argument, or an
\* argument whose load fails or is missing)
LoadedSetting(settingRegistry, setting) ==
  IF settingRegistry = "settingRegistry" /\ setting # LoadFails
  THEN setting ELSE NULL

\* an activate that gives up when it cannot load the settings
Activate_SettingsRequired(canRegister, setting, form) ==
  LET optional == OptionalTokens(load)
      settingRegistry == OptionalArg(optional, 1, setting, form)
      formRendererRegistry == OptionalArg(optional, 2, setting, form)
      loaded == LoadedSetting(settingRegistry, setting)
  IN /\ load.pc = "exported"
     /\ settingsDefaultModel' =
          IF loaded # NULL /\ loaded # "" /\ isValidWebLLMModel(loaded)
          THEN loaded ELSE settingsDefaultModel
     /\ load' = [load EXCEPT !.pc = "activated",
                             !.kernelspecs = canRegister,
                             !.settingRegistry = settingRegistry,
                             !.formRendererRegistry = formRendererRegistry,
                             !.loaded = loaded,
                             !.registered = canRegister /\ loaded # NULL]
     /\ UNCHANGED <<accessor, created, optionsModel, sharedScope, session, eng,
                    waiters, mq, task, nCalls, sendCalled, setModelCalled>>

\* plugin.activate(app, kernelspecs, settingRegistry, formRendererRegistry):
\* the host passes the services of the optional tokens in the order of the
\* `optional` list.  The stored default is set from the settings when they
\* load (a failure is caught), then the kernel is registered if
\* kernelspecs.register can be called.
Activate(canRegister, setting, form) ==
  LET optional == OptionalTokens(load)
      settingRegistry == OptionalArg(optional, 1, setting, form)
      formRendererRegistry == OptionalArg(optional, 2, setting, form)
      loaded == LoadedSetting(settingRegistry, setting)
  IN /\ load.pc = "exported"
     /\ settingsDefaultModel' =
          IF loaded # NULL /\ loaded # "" /\ isValidWebLLMModel(loaded)
          THEN loaded ELSE settingsDefaultModel
     /\ load' = [load EXCEPT !.pc = "activated",
                             !.kernelspecs = canRegister,
                             !.settingRegistry = settingRegistry,
                             !.formRendererRegistry = formRendererRegistry,
                             !.loaded = loaded,
                             !.registered = canRegister]
     /\ UNCHANGED <<accessor, created, optionsModel, sharedScope, session, eng,
                    waiters, mq, task, nCalls, sendCalled, setModelCalled>>

\* The container as a host drives it. The guards in front of the
\* quantifiers repeat guards of the actions.
NextContainer ==
  \/ /\ ~sharedScope.seeded /\ load.pc # "importing"
     /\ \E e \in ScopeEntries : ContainerInit(e)
  \/ \E module \in ModuleIds : ContainerGet(module)
  \/ LoaderStart
  \/ sharedScope.seeded /\ LoaderImport(sharedScope)
  \/ /\ ~sharedScope.seeded /\ load.pc = "importing"
     /\ \E global \in GlobalScopes : LoaderImport(global)
  \/ /\ load.pc = "exported"
     /\ \E canRegister \in BOOLEAN, setting \in HostSettings, form \in BOOLEAN :
          Activate(canRegister, setting, form)

SpecContainer == Init /\ [][NextContainer]_vars

\* settings.changed after activate has connected updateSettings (line 626):
\* the listener runs only when the settings had loaded
SettingsChanged(model) ==
  /\ load.pc = "activated" /\ load.loaded # NULL
  /\ UpdateSettings(model)

\* a dialog that stores whatever was selected
SettingsCommand_Unchecked(accept, newModel, saved) ==
  LET currentModel == IF settingsDefaultModel # NULL /\ settingsDefaultModel # ""
                      THEN settingsDefaultModel ELSE DEFAULT_WEBLLM_MODEL
      chosen == accept /\ newModel # currentModel
      stored == IF ~chosen THEN settingsDefaultModel
                ELSE IF load.settingRegistry = NULL THEN newModel
                ELSE IF load.settingRegistry = "settingRegistry" /\ saved
                THEN IF load.loaded # NULL THEN newModel
                     ELSE settingsDefaultModel
                ELSE newModel
  IN /\ load.pc = "activated"
     /\ settingsDefaultModel' = stored
     /\ UNCHANGED <<host, session, eng, waiters, mq, task, nCalls,
                    sendCalled, setModelCalled>>

\* SETTINGS_COMMAND execute (lines 933-965): the dialog starts from
\* `settingsDefaultModel || DEFAULT_WEBLLM_MODEL`; an accepted selection that
\* is non-empty, differs from it and is in the catalog is saved through the
\* setting registry when activate was given one (the connected listener
\* then stores it; a failing load or set stores it in the catch), and is
\* stored directly otherwise.
SettingsCommand(accept, newModel, saved) ==
  LET currentModel == IF settingsDefaultModel # NULL /\ settingsDefaultModel # ""
                      THEN settingsDefaultModel ELSE DEFAULT_WEBLLM_MODEL
      chosen == /\ accept /\ newModel # "" /\ newModel # currentModel
                /\ isValidWebLLMModel(newModel)
      stored == IF ~chosen THEN settingsDefaultModel
                ELSE IF load.settingRegistry = NULL THEN newModel
                ELSE IF load.settingRegistry = "settingRegistry" /\ saved
                THEN IF load.loaded # NULL THEN newModel
                     ELSE settingsDefaultModel
                ELSE newModel
  IN /\ load.pc = "activated"
     /\ settingsDefaultModel' = stored
     /\ UNCHANGED <<host, session, eng, waiters, mq, task, nCalls,
                    sendCalled, setModelCalled>>

\* The plugin after its activation: the container as a host drives it,
\* then settings changes and uses of the settings dialog.
NextPlugin ==
  \/ NextContainer
  \/ \E model \in SettingValues : SettingsChanged(model)
  \/ \E accept \in BOOLEAN, newModel \in SettingValues, saved \in BOOLEAN :
       SettingsCommand(accept, newModel, saved)

SpecPlugin == Init /\ [][NextPlugin]_vars

\* the scopes of the runs below: a package is provided or is missing
ReloadEntries ==
  {e \in [Packages -> {"absent", "ok"}] :
     Cardinality({p \in Packages : e[p] # "ok"}) <= MaxBroken}

\* A host that seeds the container again between the runs of the loaders
\* it has asked for.
NextReload ==
  \/ /\ load.pc # "importing"
     /\ \E e \in ReloadEntries \ {sharedScope.entry} : ContainerInit(e)
  \/ \E module \in ModuleIds : ContainerGet(module)
  \/ LoaderStart
  \/ sharedScope.seeded /\ LoaderImport(sharedScope)
  \/ /\ ~sharedScope.seeded /\ load.pc = "importing"
     /\ \E e \in ReloadEntries : LoaderImport(Scope(e))
  \/ ~sharedScope.seeded /\ LoaderImport(NoScope)

SpecReload == Init /\ [][NextReload]_vars

\* ===================================================================
\* shareScope.ts: the share-scope accessor and its version backfill
\* ===================================================================

\* the names of the share scope that the model follows: two of the names
\* of MINIMUM_VERSIONS and one that is not among them
Names == {"@jupyterlab/apputils", "@jupyterlab/ui-components", "react"}

\* A version string is the sequence of its parts between the dots, and a
\* part is the sequence of its characters: "4.10" is <<<<"4">>, <<"1", "0">>>>.
\* MINIMUM_VERSIONS, for the names above: "4.5.9" and "4.4.9"
MINIMUM_VERSIONS ==
  [n \in {"@jupyterlab/apputils", "@jupyterlab/ui-components"} |->
     IF n = "@jupyterlab/apputils"
     THEN <<<<"4">>, <<"5">>, <<"9">>>>
     ELSE <<<<"4">>, <<"4">>, <<"9">>>>]

\* the value of a decimal digit, -1 for any other character
DigitValue(c) ==
  CASE c = "0" -> 0 [] c = "1" -> 1 [] c = "4" -> 4 [] c = "5" -> 5
    [] c = "9" -> 9 [] OTHER -> -1

\* parseInt(part, 10) || 0: the number that the leading digits of the part
\* spell, 0 when it begins with no digit
RECURSIVE ParseDigits(_, _)
ParseDigits(part, acc) ==
  IF part = <<>> \/ DigitValue(Head(part)) < 0 THEN acc
  ELSE ParseDigits(Tail(part), 10 * acc + DigitValue(Head(part)))

ParseInt(part) == ParseDigits(part, 0)

\* compareVersions(a, b): the first difference of the parsed parts, a part
\* that is missing counting as 0
RECURSIVE compareFrom(_, _, _)
compareFrom(a, b, i) ==
  LET len == IF Len(a) > Len(b) THEN Len(a) ELSE Len(b)
      ai == IF i <= Len(a) THEN ParseInt(a[i]) ELSE 0
      bi == IF i <= Len(b) THEN ParseInt(b[i]) ELSE 0
  IN IF i > len THEN 0
     ELSE IF ai - bi # 0 THEN ai - bi
     ELSE compareFrom(a, b, i + 1)

compareVersions(a, b) == compareFrom(a, b, 1)

\* Array.prototype.sort(compareVersions): ascending and stable, that is,
\* keys that compare equal keep the order they had
RECURSIVE InsertSorted(_, _)
InsertSorted(sorted, x) ==
  IF sorted = <<>> THEN <<x>>
  ELSE IF compareVersions(sorted[Len(sorted)], x) <= 0 THEN Append(sorted, x)
  ELSE Append(InsertSorted(SubSeq(sorted, 1, Len(sorted) - 1), x),
              sorted[Len(sorted)])

RECURSIVE SortFrom(_, _, _)
SortFrom(keys, i, sorted) ==
  IF i > Len(keys) THEN sorted
  ELSE SortFrom(keys, i + 1, InsertSorted(sorted, keys[i]))

sort(keys) == SortFrom(keys, 1, <<>>)

\* A version table is the sequence of its entries in the order in which
\* Object.keys enumerates them.  An entry has the key, the version object
\* (named by the key it was registered under, `from`) and what its `get`
\* is: <<>> when it has no callable get, <<"null">> when the value stored
\* under the key is null or undefined, else what the factory gives.
Entry(key, from, get) == [key |-> key, from |-> from, get |-> get]

\* the provider is not a key of the scope
NoProvider == [present |-> FALSE, versions |-> <<>>]

Provider(versions) == [present |-> TRUE, versions |-> versions]

\* Object.keys(versions)
Keys(versions) == [i \in 1..Len(versions) |-> versions[i].key]

HasKey(versions, key) == \E i \in 1..Len(versions) : versions[i].key = key

\* versions[key] is truthy
Truthy(versions, key) ==
  \E i \in 1..Len(versions) :
    versions[i].key = key /\ versions[i].get # <<"null">>

\* versions[key], for a key of the table
At(versions, key) ==
  versions[CHOOSE i \in 1..Len(versions) : versions[i].key = key]

\* a key that is a canonical array index: Object.keys lists such keys
\* first, in ascending order, and the others in the order of insertion
IsIndexKey(key) ==
  /\ Len(key) = 1
  /\ \A i \in 1..Len(key[1]) : DigitValue(key[1][i]) >= 0
  /\ key[1] # <<>>
  /\ (Len(key[1]) > 1 => key[1][1] # "0")

\* versions[key] = value: in place when the key exists, else a new last
\* entry (the keys that are assigned here have three parts)
Put(versions, key, value) ==
  IF HasKey(versions, key)
  THEN [i \in 1..Len(versions) |->
          IF versions[i].key = key
          THEN Entry(key, value.from, value.get) ELSE versions[i]]
  ELSE Append(versions, Entry(key, value.from, value.get))

\* a backfill that takes the first of the sorted keys
coerceModuleVersion_Lowest(scope, moduleName, targetVersion) ==
  LET versions == scope[moduleName].versions
      available == sort(Keys(versions))
      best == available[1]
  IN IF ~scope[moduleName].present THEN scope
     ELSE IF Truthy(versions, targetVersion) THEN scope
     ELSE IF Len(versions) = 0 THEN scope
     ELSE [scope EXCEPT ![moduleName].versions =
             Put(versions, targetVersion, At(versions, best))]

\* coerceModuleVersion(scope, moduleName, targetVersion)
coerceModuleVersion(scope, moduleName, targetVersion) ==
  LET versions == scope[moduleName].versions
      available == sort(Keys(versions))
      best == available[Len(available)]
  IN IF ~scope[moduleName].present THEN scope
     ELSE IF Truthy(versions, targetVersion) THEN scope
     ELSE IF Len(versions) = 0 THEN scope
     ELSE [scope EXCEPT ![moduleName].versions =
             Put(versions, targetVersion, At(versions, best))]

\* normalizeSharedScopeVersions: coerceModuleVersion for every entry of
\* MINIMUM_VERSIONS, one after the other
normalizeSharedScopeVersions(scope) ==
  coerceModuleVersion(
    coerceModuleVersion(scope, "@jupyterlab/ui-components",
                        MINIMUM_VERSIONS["@jupyterlab/ui-components"]),
    "@jupyterlab/apputils", MINIMUM_VERSIONS["@jupyterlab/apputils"])

\* setSharedScope(scope): the scope is stored and its version tables are
\* backfilled in place
SetSharedScope(scope) ==
  /\ accScope' = [seeded |-> TRUE,
                  entry |-> normalizeSharedScopeVersions(scope),
                  given |-> scope]
  /\ UNCHANGED <<created, optionsModel, sharedScope, load, factoryLog, outcome,
                 session, settingsDefaultModel, eng, waiters, mq, task, nCalls,
                 sendCalled, setModelCalled>>

\* what a resolution gives: how it ended, the value it returned, and the
\* key of the version whose factory it called (<<>>: no factory was called)
Resolution(status, value, called) ==
  [status |-> status, value |-> value, called |-> called]

\* `await x`: the value a promise settles to; "throw" stands for a rejection
Await(x) == IF x # <<>> /\ Head(x) = "promise" THEN Tail(x) ELSE x

\* getSharedModule(moduleName) against the stored scope
getSharedModule(scope, moduleName) ==
  IF ~scope.seeded THEN Resolution("notseeded", <<>>, <<>>)
  ELSE IF ~scope.entry[moduleName].present THEN Resolution("absent", <<>>, <<>>)
  ELSE LET versions == scope.entry[moduleName].versions IN
    IF Len(versions) = 0 THEN Resolution("noversions", <<>>, <<>>)
    ELSE LET selected == versions[1]
             moduleExports == selected.get IN
      IF selected.get \in {<<>>, <<"null">>}
      THEN Resolution("nofactory", <<>>, <<>>)
      ELSE IF moduleExports = <<"throw">>
      THEN Resolution("throws", <<>>, selected.key)
      ELSE IF Head(moduleExports) = "promise"
      THEN Resolution("async", <<>>, selected.key)
      ELSE Resolution("ok", moduleExports, selected.key)

\* an importShared that goes on to the next version when the first one has
\* no factory
importSharedModule_NextVersion(scope, pkg) ==
  IF ~scope.seeded THEN Resolution("notseeded", <<>>, <<>>)
  ELSE IF ~scope.entry[pkg].present THEN Resolution("absent", <<>>, <<>>)
  ELSE LET versions == scope.entry[pkg].versions IN
    IF Len(versions) = 0 THEN Resolution("noversions", <<>>, <<>>)
    ELSE LET usable == SelectSeq(versions, LAMBDA v : v.get \notin {<<>>, <<"null">>})
         IN IF usable = <<>> THEN Resolution("nofactory", <<>>, <<>>)
            ELSE LET awaited == Await(usable[1].get)
                     called == IF awaited # <<>> /\ Head(awaited) = "fn"
                               THEN Tail(awaited) ELSE awaited
                 IN IF Await(called) = <<"throw">> \/ awaited = <<"throw">>
                    THEN Resolution("throws", <<>>, usable[1].key)
                    ELSE Resolution("ok", Await(called), usable[1].key)

\* an importShared that returns what the factory's promise settles to
\* without calling it
importSharedModule_NoCall(scope, pkg) ==
  IF ~scope.seeded THEN Resolution("notseeded", <<>>, <<>>)
  ELSE IF ~scope.entry[pkg].present THEN Resolution("absent", <<>>, <<>>)
  ELSE LET versions == scope.entry[pkg].versions IN
    IF Len(versions) = 0 THEN Resolution("noversions", <<>>, <<>>)
    ELSE LET version == versions[1] IN
      IF version.get \in {<<>>, <<"null">>}
      THEN Resolution("nofactory", <<>>, <<>>)
      ELSE LET awaited == Await(version.get)
           IN IF awaited = <<"throw">>
              THEN Resolution("throws", <<>>, version.key)
              ELSE Resolution("ok", awaited, version.key)

\* importShared(pkg) against the stored scope, as its caller sees it after
\* `await importShared(pkg)`: the first version's factory is called, its
\* result is awaited if it is a promise, called if it then is a function,
\* and returned from the async function
importSharedModule(scope, pkg) ==
  IF ~scope.seeded THEN Resolution("notseeded", <<>>, <<>>)
  ELSE IF ~scope.entry[pkg].present THEN Resolution("absent", <<>>, <<>>)
  ELSE LET versions == scope.entry[pkg].versions IN
    IF Len(versions) = 0 THEN Resolution("noversions", <<>>, <<>>)
    ELSE LET version == versions[1] IN
      IF version.get \in {<<>>, <<"null">>}
      THEN Resolution("nofactory", <<>>, <<>>)
      ELSE LET awaited == Await(version.get)
               called == IF awaited # <<>> /\ Head(awaited) = "fn"
                         THEN Tail(awaited) ELSE awaited
           IN IF Await(called) = <<"throw">> \/ awaited = <<"throw">>
              THEN Resolution("throws", <<>>, version.key)
              ELSE Resolution("ok", Await(called), version.key)

\* the record of a resolution: outcome is the last one and counts them,
\* factoryLog lists the factories called
Resolved(by, name, r) ==
  /\ outcome' = [by |-> by, name |-> name, status |-> r.status,
                 value |-> r.value, n |-> outcome.n + 1]
  /\ factoryLog' = IF r.called = <<>> THEN factoryLog
                   ELSE Append(factoryLog, <<name, r.called>>)

\* a call of getSharedModule(moduleName) by the extension
GetSharedModule(moduleName) ==
  /\ outcome.n < MaxResolves
  /\ Resolved("getSharedModule", moduleName, getSharedModule(accScope, moduleName))
  /\ UNCHANGED <<created, optionsModel, sharedScope, load, accScope,
                 session, settingsDefaultModel, eng, waiters, mq, task, nCalls,
                 sendCalled, setModelCalled>>

\* an importShared that keeps what it has resolved
ImportShared_Cached(pkg, global) ==
  LET scope == IF sharedScope.seeded THEN sharedScope ELSE global
      r == importSharedModule(scope, pkg)
  IN /\ outcome.n < MaxResolves
     /\ sharedScope' = scope
     /\ Resolved("importShared", pkg,
                 IF \E i \in 1..Len(factoryLog) : factoryLog[i][1] = pkg
                 THEN [r EXCEPT !.called = <<>>] ELSE r)
     /\ UNCHANGED <<created, optionsModel, load, accScope,
                    session, settingsDefaultModel, eng, waiters, mq, task,
                    nCalls, sendCalled, setModelCalled>>

\* a call of importShared(pkg) awaited by itself.  With no scope stored,
\* importShared adopts the global scope `global` if there is one.
ImportShared(pkg, global) ==
  LET scope == IF sharedScope.seeded THEN sharedScope ELSE global
  IN /\ outcome.n < MaxResolves
     /\ sharedScope' = scope
     /\ Resolved("importShared", pkg, importSharedModule(scope, pkg))
     /\ UNCHANGED <<created, optionsModel, load, accScope,
                    session, settingsDefaultModel, eng, waiters, mq, task,
                    nCalls, sendCalled, setModelCalled>>

\* the version strings of the tables below: "4", "4.x", "4.5", "4.5.0",
\* "4.10", and the two minimum versions "4.4.9" and "4.5.9"
VersionKeys ==
  {<<<<"4">>>>, <<<<"4">>, <<"x">>>>, <<<<"4">>, <<"5">>>>,
   <<<<"4">>, <<"5">>, <<"0">>>>, <<<<"4">>, <<"1", "0">>>>,
   <<<<"4">>, <<"4">>, <<"9">>>>, <<<<"4">>, <<"5">>, <<"9">>>>}

\* the keys of a table in an order in which Object.keys can list them: no
\* key twice, the array-index keys first and ascending
Enumerable(ks) ==
  /\ \A i, j \in 1..Len(ks) : i < j => ks[i] # ks[j]
  /\ \A i, j \in 1..Len(ks) :
       (i < j /\ IsIndexKey(ks[j])) =>
         IsIndexKey(ks[i]) /\ ParseInt(ks[i][1]) < ParseInt(ks[j][1])

KeySeqs(keys) ==
  UNION {{ks \in [1..n -> keys] : Enumerable(ks)} : n \in 0..MaxVersions}

\* the tables over the keys: every version is its own object, and what
\* stands under the first key is drawn from `first`, under a later key
\* from `later`
Tables(keys, first, later) ==
  UNION {{[i \in 1..Len(ks) |-> Entry(ks[i], ks[i], g[i])] :
            g \in {h \in [1..Len(ks) -> first \cup later] :
                     \A i \in 1..Len(ks) :
                       h[i] \in (IF i = 1 THEN first ELSE later)}} :
         ks \in KeySeqs(keys)}

\* the scopes with the table under one name; of the two other names one
\* is not in the scope and one has an empty table
ScopesOf(tables) ==
  {[n \in Names |->
      IF n = m THEN Provider(t)
      ELSE IF n = other THEN Provider(<<>>) ELSE NoProvider] :
   m \in Names, other \in Names, t \in tables}

\* the scopes a host seeds the accessor with: any of the version strings,
\* with a version object or null under it
BackfillScopes ==
  ScopesOf(Tables(VersionKeys, {<<"V">>, <<"null">>}, {<<"V">>, <<"null">>}))

\* The accessor of shareScope.ts, or else the container of federation.ts,
\* seeded by the host and read: the extension is built around one of them.
NextBackfill ==
  \/ /\ ~accScope.seeded /\ ~sharedScope.seeded
     /\ \E scope \in BackfillScopes : SetSharedScope(scope)
  \/ accScope.seeded /\ SetSharedScope(accScope.entry)
  \/ /\ ~accScope.seeded /\ ~sharedScope.seeded
     /\ \E scope \in BackfillScopes : ContainerInit(scope)
  \/ accScope.seeded /\ \E name \in Names : GetSharedModule(name)
  \/ sharedScope.seeded /\ \E name \in Names : ImportShared(name, sharedScope)

SpecBackfill == Init /\ [][NextBackfill]_vars

\* what a factory can give: a module V or W, wrapped up to MaxWrap times
\* in a promise that settles to it or a function that returns it, with
\* "throw" for a factory or function that throws and a promise that
\* rejects.  A promise of a promise is the promise of its value.
Wrappers ==
  UNION {{w \in [1..n -> {"promise", "fn"}] :
            \A i \in 1..(n - 1) : ~(w[i] = "promise" /\ w[i + 1] = "promise")} :
         n \in 0..MaxWrap}

FactoryResults == {w \o <<b>> : w \in Wrappers, b \in {"V", "W", "throw"}}

\* the version strings of the tables that are resolved from
ResolveKeys ==
  {<<<<"4">>>>, <<<<"4">>, <<"5">>>>, <<<<"4">>, <<"5">>, <<"9">>>>}

\* the scopes that are resolved from: under the first key a version with
\* any factory, with no factory, or null; under a later key a version whose
\* factory gives W
ResolveScopes ==
  ScopesOf(Tables(ResolveKeys, FactoryResults \cup {<<>>, <<"null">>}, {<<"W">>}))

\* The accessor or else the container, seeded by the host or not at all,
\* and modules resolved from it one call after the other.
NextResolve ==
  \/ /\ ~accScope.seeded /\ ~sharedScope.seeded
     /\ \E scope \in ResolveScopes : SetSharedScope(scope)
  \/ /\ ~accScope.seeded /\ ~sharedScope.seeded
     /\ \E scope \in ResolveScopes : ContainerInit(scope)
  \/ ~sharedScope.seeded /\ \E name \in Names : GetSharedModule(name)
  \/ /\ ~accScope.seeded /\ sharedScope.seeded
     /\ \E name \in Names : ImportShared(name, sharedScope)
  \/ /\ ~accScope.seeded /\ ~sharedScope.seeded
     /\ \E name \in Names : ImportShared(name, NoScope)
  \/ /\ ~accScope.seeded /\ ~sharedScope.seeded
     /\ \E name \in Names, global \in ResolveScopes :
          ImportShared(name, Scope(global))

SpecResolve == Init /\ [][NextResolve]_vars

TypeOK ==
  /\ created \in BOOLEAN
  /\ engine \in 0..MaxCalls
  /\ initializationPromise \in 0..MaxCalls
  /\ nCalls \in 0..MaxCalls
  /\ \A t \in Tasks : task[t].pc = "idle" <=> t > nCalls
  /\ NextEngine <= nCalls + 1
  /\ optionsModel \in OptionModels
  /\ sharedScope \in GlobalScopes
  /\ load.got \in {"none", "loader", "UnknownBundle"}
  /\ load.pc \in {"none", "importing", "failed", "exported", "activated"}
  /\ load.prev \in {"none", "failed", "exported", "activated"}
  /\ load.pc = "importing" => load.step \in 1..Len(Imports)
  /\ load.plugin <=> load.pc \in {"exported", "activated"}

\* ===================================================================
\* Properties
\* ===================================================================

\* number of engine-construction calls made so far
ConstructCalls == Cardinality({k \in Engines : eng[k].st # "unused"})

\* construction calls whose CreateMLCEngine promise is still pending
Outstanding == {k \in Engines : eng[k].st = "constructing"}

\* engines installed in the session and not torn down
Resident == {k \in Engines : eng[k].st = "fulfilled" /\ ~eng[k].unloaded}

\* the task went through initializeModel (the session was not ready)
WentThroughInit(t) == task[t].via \in {"own", "same", "other"}

C2_OnlyCurrentEngineResident == \A k \in Resident : engine = k

\* C3 (claim as stated): at most one engine-construction call is
\* outstanding at any time.
C3_OneOutstandingConstruction == Cardinality(Outstanding) <= 1

\* C4: when a setModel that found an engine h makes its construction call,
\* unload of h was invoked and has completed, and the session's handle has
\* been cleared (it is not h any more).
C4_ReleaseBeforeConstruct ==
  [][\A t \in Tasks :
       (task[t].pc = "sm_unloaded" /\ task'[t].pc = "im_wait_own") =>
         /\ eng[task[t].h].unloadCalls >= 1
         /\ eng[task[t].h].unloaded
         /\ engine' = 0 /\ engine' # task[t].h
         /\ ~initialized']_vars

\* a switch from an engine of one model to another model has made its
\* construction call
C4_Witness ==
  \E t \in Tasks :
    /\ task[t].op = "setModel" /\ task[t].pc = "im_wait_own"
    /\ task[t].h # 0 /\ eng[task[t].h].model # task[t].arg
    /\ eng[task[t].aw].st = "constructing"

\* C5 (claim as stated, the retry part): a call never fails on the
\* rejection of a construction that had already failed before the call
\* began waiting; it gets a fresh construction call instead.
C5_RetryAfterFailure ==
  \A t \in Tasks :
    (task[t].pc = "failed" /\ task[t].res = "constructfail") => ~task[t].stale

\* C6: an initialized session has an engine handle and a model name.
C6_ReadyHasEngineAndName == initialized => (engine # 0 /\ modelName # NULL)

\* the session is ready again after a switch tore an engine down
C6_Witness ==
  /\ initialized /\ engine # 0
  /\ \E k \in Engines : eng[k].unloaded /\ k # engine

\* C7 (claim as stated, at the states where no microtask is pending):
\* a non-null initializationPromise means the session is not ready and
\* the construction it stands for is pending.
C7_InFlightMeansInitializing ==
  (mq = <<>> /\ initializationPromise # 0) =>
    (~initialized /\ eng[initializationPromise].st = "constructing")

\* C8 (claim as stated): setModel(T) on a session that is ready on T
\* returns at once and changes nothing: no unload, no construction.
C8_SwitchToCurrentIsNoop ==
  [][\A t \in Tasks :
       (/\ task[t].pc = "idle" /\ task'[t].op = "setModel"
        /\ initialized /\ engine # 0 /\ modelName = task'[t].arg) =>
         (/\ task'[t].pc = "done"
          /\ eng' = eng
          /\ UNCHANGED <<engine, modelName, initialized>>)]_vars

AllNonEmpty(ss) == \A i \in 1..Len(ss) : NonEmpty(ss[i])

\* C10 (SpecStream): for non-empty fragments c1..cn the callback has been
\* invoked with exactly the fragments emitted so far, in order, and when
\* send has resolved it was invoked n times and the result is c1..cn
\* concatenated.
C10_StreamOrder ==
  \A t \in Tasks :
    (/\ task[t].op \in {"send", "httpSend"}
     /\ task[t].pc \in {"s_stream", "h_stream", "done"}
     /\ AllNonEmpty(task[t].emitted)) =>
      /\ task[t].cb = task[t].emitted
      /\ task[t].reply = Concat(task[t].emitted)

\* a send has resolved after two different non-empty fragments
C10_Witness ==
  \E t \in Tasks :
    /\ task[t].op = "send" /\ task[t].pc = "done"
    /\ task[t].emitted = << <<"b", "c">>, <<"a">> >>

\* pcs at which the completion request has been issued to the engine
Requested == {"s_create", "s_stream", "h_stream"}

\* results of a send whose engine was reported unsupported or unavailable
Unavailable == {"unavailable", "constructfail", "noengine"}

\* C11 (SpecStream): when the completion request or the stream of a send
\* fails after k >= 0 fragments, the send rejects with that failure (it does
\* not resolve), executeRequest replies with status error, and the
\* session's engine, modelName, initialized and initializationPromise are
\* what they were before the failure.
C11_MidStreamFailure ==
  [][\A t \in Tasks :
       (task[t].pc \in {"s_create", "s_stream"} /\ task'[t].res = "streamfail") =>
         /\ task'[t].pc = "failed"
         /\ executeReply(task'[t]).status = "error"
         /\ executeReply(task'[t]).evalue = "streamfail"
         /\ session' = session
         /\ eng' = eng]_vars

\* a send has failed in the middle of its stream, after a fragment was
\* delivered to the callback
C11_Witness ==
  \E t \in Tasks :
    /\ task[t].op = "send" /\ task[t].pc = "failed" /\ task[t].res = "streamfail"
    /\ task[t].cb # <<>>
    /\ initialized /\ engine # 0

\* C12 (SpecStream): a send that fails because the engine is unsupported or
\* unavailable fails before any completion request was issued, and its
\* chunk callback has not been invoked.
C12_UnavailableBeforeStream ==
  [][\A t \in Tasks :
       (task[t].pc # "failed" /\ task'[t].pc = "failed"
          /\ task'[t].res \in Unavailable) =>
         /\ task[t].pc \notin Requested
         /\ task'[t].sEng = 0
         /\ task'[t].emitted = <<>>
         /\ task'[t].cb = <<>>]_vars

\* availability() was "unavailable" and the send has failed
C12_Witness ==
  \E t \in Tasks :
    task[t].op = "httpSend" /\ task[t].pc = "failed" /\ task[t].res = "unavailable"

\* C13 (claim as stated): a send that loads a model loads the override
\* given at the creation of the kernel if there is one, else the value from
\* the settings if one is set, else the hardcoded default.
C13_DefaultPrecedence ==
  [][\A t \in Tasks :
       (task[t].pc = "idle" /\ task'[t].op = "send" /\ task'[t].via = "own") =>
         eng'[task'[t].aw].model =
           IF optionsModel # NULL THEN optionsModel
           ELSE IF settingsDefaultModel # NULL THEN settingsDefaultModel
           ELSE DEFAULT_WEBLLM_MODEL]_vars

\* the magic responses that answer without calling the session
Answers == {"list", "nomatch", "show", "help"}

\* C14 (SpecMagic): every text takes exactly one route.  A text the router
\* recognises as a magic is answered, or handed to setModel, and is not
\* passed to send; every other text is passed to send once, as it was
\* written.
C14_RoutingExclusiveTotal ==
  \A t \in Tasks :
    task[t].pc \notin {"idle", "returned"} =>
      LET kind == handleMagic(task[t].code).kind IN
      /\ kind \in Answers =>
           (task[t].op = "magic" /\ task[t].out.kind = kind /\ task[t].prompts = <<>>)
      /\ kind = "model" => (task[t].op = "setModel" /\ task[t].prompts = <<>>)
      /\ kind = "null" =>
           (task[t].op = "send" /\ task[t].prompts = <<task[t].code>>
              /\ task[t].out = NoOut)
      /\ kind \in Answers \cup {"model", "null"}

\* a text with blanks around it has been passed to send as written
C14_Witness ==
  \E t \in Tasks :
    /\ task[t].op = "send" /\ task[t].code # trim(task[t].code)
    /\ task[t].prompts = <<task[t].code>>

RECURSIVE Words(_)
Words(s) ==
  LET r == TrimStart(s)
      n == IF \E i \in 1..Len(r) : IsSpace(r[i])
           THEN (CHOOSE i \in 1..Len(r) :
                   IsSpace(r[i]) /\ \A j \in 1..(i - 1) : ~IsSpace(r[j])) - 1
           ELSE Len(r)
  IN IF r = <<>> THEN <<>>
     ELSE <<SubSeq(r, 1, n)>> \o Words(SubSeq(r, n + 1, Len(r)))

\* the text is "%chat model <name>"
IsModelDirective(code) ==
  /\ Len(Words(code)) = 3
  /\ Words(code)[1] = <<"%chat">> /\ Words(code)[2] = <<"model">>

\* C16 (SpecMagic): a text "%chat model <name>" is handed to setModel with
\* that name and is not sent as a prompt; when the name is not in the
\* catalog the request fails (no response of the magic), the reply is an
\* error and its message carries the hint to run "%chat list".
C16_ModelDirective ==
  \A t \in Tasks :
    (task[t].pc \notin {"idle", "returned"} /\ IsModelDirective(task[t].code)) =>
      /\ task[t].op = "setModel"
      /\ task[t].arg = NameOf(Words(task[t].code)[3])
      /\ task[t].prompts = <<>>
      /\ ~isValidWebLLMModel(task[t].arg) =>
           /\ task[t].pc = "failed" /\ task[t].res = "invalid"
           /\ task[t].out = NoOut
           /\ executeReply(task[t]).status = "error"
           /\ executeReply(task[t]).hint

\* "%chat model list" has failed: "list" is not a model
C16_Witness ==
  \E t \in Tasks :
    /\ task[t].code = <<"%chat", " ", "model", " ", "list">>
    /\ task[t].op = "setModel" /\ task[t].pc = "failed" /\ task[t].res = "invalid"

\* the texts that ask for the usage text
HelpTexts == {<<"%chat">>, <<"%chat", " ", "help">>}

\* C17 (SpecRequests): answering a magic leaves the session as it was (no
\* construction call, no unload, the same engine, modelName, initialized
\* and initializationPromise), and the answer to "%chat help" and to a bare
\* "%chat" is one fixed usage text, whatever the state of the session.
C17_MagicLeavesSession ==
  [][\A t \in Tasks :
       (task[t].pc = "idle" /\ task'[t].op = "magic") =>
         /\ session' = session
         /\ eng' = eng
         /\ waiters' = waiters /\ mq' = mq
         /\ trim(task'[t].code) \in HelpTexts =>
              task'[t].out = [NoOut EXCEPT !.kind = "help"]]_vars

\* the usage text has been given by a session that is ready
C17_Witness ==
  \E t \in Tasks :
    /\ task[t].op = "magic" /\ task[t].out.kind = "help"
    /\ initialized /\ engine # 0

\* the packages whose factory a complete run of the loader calls
FactoriesOf(scope) ==
  SelectSeq(Imports, LAMBDA pkg : FactoryCalled(scope, pkg))

\* C18 (SpecContainer): container.get gives its loader for "./index" and
\* for "./extension", and the loader builds the same plugin from the same
\* imports whichever of the two was asked for; for any other id it fails
\* with UnknownBundle and changes nothing else: the shared scope, the
\* factories called and the plugin of an earlier load stay as they were.
C18_BundleIds ==
  [][/\ (load'.module # load.module \/ load'.got # load.got) =>
          /\ load'.module \in {"./index", "./extension"} =>
               load'.got = "loader"
          /\ load'.module \notin {"./index", "./extension"} =>
               load'.got = "UnknownBundle"
          /\ sharedScope' = sharedScope
          /\ load' = [load EXCEPT !.got = load'.got, !.module = load'.module]
     /\ (load.pc # "importing" /\ load'.pc = "importing") =>
          load'.module \in {"./index", "./extension"}
     /\ (load.pc = "importing" /\ load'.pc = "exported") =>
          /\ load'.plugin
          /\ load'.invoked = FactoriesOf(sharedScope')]_vars

\* an unknown bundle has been asked for after the plugin was built from a
\* seeded scope
C18_Witness ==
  /\ load.got = "UnknownBundle" /\ load.module = "./other"
  /\ sharedScope.seeded /\ load.plugin

\* C19 (SpecContainer): when a required import of the loader fails, the
\* loader fails at that import with that error: the factory of no later
\* import is called, no plugin is built, and nothing is registered until
\* the loader is started again; the loader goes past a required import
\* only when that import gave the module.
C19_RequiredFailureAborts ==
  [][/\ (load.pc = "importing" /\ load.step <= Len(RequiredImports)) =>
          LET r == importShared(sharedScope', RequiredImports[load.step]) IN
          IF r = "ok"
          THEN load'.pc = "importing" /\ load'.step = load.step + 1
          ELSE /\ load'.pc = "failed" /\ load'.error = r
               /\ load'.step = load.step
               /\ ~load'.plugin /\ ~load'.registered
               /\ \A i \in 1..Len(load'.invoked) :
                    \E j \in 1..load.step : load'.invoked[i] = Imports[j]
     /\ load.pc = "failed" =>
          \/ load'.pc = "importing" /\ load'.step = 1
          \/ /\ load'.pc = "failed" /\ load'.invoked = load.invoked
             /\ ~load'.plugin /\ ~load'.registered]_vars

\* the loader has failed at its third import, after the factories of the
\* first two were called, in a scope that provides the later packages
C19_Witness ==
  /\ load.pc = "failed" /\ load.step = 3
  /\ load.error = "nofactory"
  /\ load.invoked = <<"@jupyterlite/kernel", "@lumino/widgets">>
  /\ sharedScope.entry["react"] = "ok"
  /\ sharedScope.entry["@jupyterlab/settingregistry"] = "ok"

\* C20 (SpecContainer): a failure of an optional import never fails the
\* loader: the variable of that import stays null, the loader goes on, and
\* after the last import the plugin is built and the exports are returned.
C20_OptionalFailureSwallowed ==
  [][(load.pc = "importing" /\ load.step > Len(RequiredImports)) =>
       LET r == importShared(sharedScope', Imports[load.step])
           got == IF load.step = Len(RequiredImports) + 1
                  THEN load'.ISettingRegistry
                  ELSE load'.IFormRendererRegistry
       IN /\ load'.pc # "failed" /\ load'.error = NULL
          /\ (got = NULL) <=> (r # "ok")
          /\ load'.step = load.step + 1
          /\ IF load.step = Len(Imports)
             THEN load'.pc = "exported" /\ load'.plugin
             ELSE load'.pc = "importing"]_vars

\* the exports were returned although the setting registry package threw
C20_Witness ==
  /\ load.pc = "exported" /\ load.plugin
  /\ sharedScope.entry["@jupyterlab/settingregistry"] = "throws"
  /\ load.ISettingRegistry = NULL /\ load.IFormRendererRegistry # NULL

\* C30 (Spec): setModel with a name that is not a known model fails with
\* "Invalid model" at once: unload is not called, no construction call is
\* made, and engine, modelName, initialized and initializationPromise are
\* as before the call.
C30_InvalidNameNoEffect ==
  [][\A t \in Tasks :
       (task[t].pc = "idle" /\ task'[t].op = "setModel"
          /\ ~isValidWebLLMModel(task'[t].arg)) =>
         /\ task'[t].pc = "failed" /\ task'[t].res = "invalid"
         /\ session' = session
         /\ eng' = eng
         /\ waiters' = waiters /\ mq' = mq]_vars

\* a ready session has refused an unknown name
C30_Witness ==
  \E t \in Tasks :
    /\ task[t].op = "setModel" /\ task[t].arg = "X"
    /\ task[t].pc = "failed" /\ task[t].res = "invalid"
    /\ initialized /\ engine # 0 /\ modelName = "A"

\* C24 (SpecReply): when the call that an executeRequest awaits has
\* settled, executeRequest returns one reply. If handleMagic or send has
\* thrown, one execute-error has been published and the reply has status
\* "error" with the message of the failure; otherwise nothing has been
\* published and the reply has status "ok".
C24_ReplyNeverDropsFailure ==
  [][\A t \in Tasks :
       (task[t].request /\ Settled(t) /\ task'[t] # task[t]) =>
         /\ task'[t].pc = "returned"
         /\ IF task[t].pc = "failed"
            THEN /\ task'[t].published = 1
                 /\ task'[t].content.status = "error"
                 /\ task'[t].content.ename = "Error"
                 /\ task'[t].content.evalue = task[t].res
            ELSE /\ task'[t].published = 0
                 /\ task'[t].content.status = "ok"]_vars

\* a send that failed in mid-stream and a setModel that was refused have
\* both been answered with an error reply
C24_Witness ==
  \E t, u \in Tasks :
    /\ task[t].pc = "returned" /\ task[t].content.status = "error"
    /\ task[t].content.evalue = "streamfail" /\ task[t].published = 1
    /\ task[u].pc = "returned" /\ task[u].content.evalue = "invalid"
    /\ task[u].content.hint

\* C26 (SpecReload): every call of the loader is a new run: it starts
\* at the first import with no factory called and no plugin, whatever the
\* run before it gave; it ends in the exports exactly when every required
\* package resolves in the scope that is stored at that time, having called
\* the factory of every package that has one; and it fails at a package
\* that does not resolve in that scope.
C26_NothingCached ==
  [][/\ (load'.prev # load.prev \/ (load.pc # "importing" /\ load'.pc = "importing")) =>
          /\ load'.pc = "importing" /\ load'.step = 1
          /\ load'.invoked = <<>> /\ ~load'.plugin
          /\ load'.prev = load.pc
     /\ (load.pc = "importing" /\ load'.pc = "exported") =>
          /\ \A i \in 1..Len(RequiredImports) :
               importShared(sharedScope', RequiredImports[i]) = "ok"
          /\ load'.invoked = FactoriesOf(sharedScope')
     /\ (load.pc = "importing" /\ load'.pc = "failed") =>
          importShared(sharedScope', Imports[load.step]) # "ok"]_vars

\* the loader has failed, the container was seeded again, and the second
\* run of the loader has built the plugin
C26_Witness ==
  /\ load.pc = "exported" /\ load.prev = "failed"
  /\ Len(load.invoked) = Len(Imports)

\* a key of the table that no other key is above in compareVersions
Highest(versions, k) ==
  /\ HasKey(versions, k)
  /\ \A i \in 1..Len(versions) : compareVersions(k, versions[i].key) >= 0

\* the provider has a table with a version in it and no key `alias`
LacksAlias(scope, name, alias) ==
  /\ scope[name].present
  /\ Len(scope[name].versions) > 0
  /\ ~HasKey(scope[name].versions, alias)

\* C23: when the accessor is seeded with a scope in which a provider of
\* MINIMUM_VERSIONS has a non-empty table without its minimum version as a
\* key, the stored table has that key afterwards, under it the very version
\* object of a highest key of the table as compared by compareVersions, and
\* every key the table had still has its version object.
C23_BackfillAliasesHighest ==
  accScope.seeded =>
    \A name \in DOMAIN MINIMUM_VERSIONS :
      LacksAlias(accScope.given, name, MINIMUM_VERSIONS[name]) =>
        LET before == accScope.given[name].versions
            after == accScope.entry[name].versions
            alias == MINIMUM_VERSIONS[name]
        IN /\ HasKey(after, alias)
           /\ \E i \in 1..Len(before) :
                /\ Highest(before, before[i].key)
                /\ At(after, alias).from = before[i].from
                /\ At(after, alias).get = before[i].get
           /\ \A i \in 1..Len(before) : At(after, before[i].key) = before[i]

\* a table with two versions of different height was backfilled
C23_Witness ==
  /\ accScope.seeded
  /\ \E name \in DOMAIN MINIMUM_VERSIONS :
       /\ LacksAlias(accScope.given, name, MINIMUM_VERSIONS[name])
       /\ Len(accScope.given[name].versions) = 2
       /\ ~Highest(accScope.given[name].versions,
                   accScope.given[name].versions[2].key)
       /\ Len(accScope.entry[name].versions) = 3

\* C27: seeding the accessor only ever appends to a table: every key the
\* given table had is in the stored table with the value it had, a table
\* that already had the provider's minimum version as a key is stored as it
\* was given, and a provider that is not in the scope, has an empty table
\* or is not in MINIMUM_VERSIONS is stored as it was given.
C27_BackfillAppendOnly ==
  accScope.seeded =>
    \A name \in Names :
      LET before == accScope.given[name].versions
          after == accScope.entry[name].versions
      IN /\ \A i \in 1..Len(before) :
              HasKey(after, before[i].key) /\ At(after, before[i].key) = before[i]
         /\ (name \in DOMAIN MINIMUM_VERSIONS
               /\ HasKey(before, MINIMUM_VERSIONS[name])) => after = before
         /\ (~accScope.given[name].present \/ before = <<>>
               \/ name \notin DOMAIN MINIMUM_VERSIONS) =>
              accScope.entry[name] = accScope.given[name]

\* the two entries hold the same value: both null, or the same version
\* object
SameValue(a, b) ==
  /\ a.get = b.get
  /\ a.get # <<"null">> => a.from = b.from

\* the first key of the table, in its stored order, that is a highest one
FirstHighest(versions) ==
  versions[CHOOSE i \in 1..Len(versions) :
             /\ Highest(versions, versions[i].key)
             /\ \A j \in 1..(i - 1) : ~Highest(versions, versions[j].key)]

\* C28: compareVersions takes a missing trailing component for zero ("4.5"
\* and "4.5.0" compare equal) and a component that is no number for zero
\* ("4.x" and "4" compare equal), and when several keys of a table are
\* highest, the backfilled minimum version holds the version object of the
\* first of them in the table's stored order.
C28_TiesKeepFirstSeen ==
  /\ compareVersions(<<<<"4">>, <<"5">>>>, <<<<"4">>, <<"5">>, <<"0">>>>) = 0
  /\ compareVersions(<<<<"4">>, <<"x">>>>, <<<<"4">>>>) = 0
  /\ accScope.seeded =>
       \A name \in DOMAIN MINIMUM_VERSIONS :
         LacksAlias(accScope.given, name, MINIMUM_VERSIONS[name]) =>
           SameValue(At(accScope.entry[name].versions, MINIMUM_VERSIONS[name]),
                     FirstHighest(accScope.given[name].versions))

\* C25: once the container has been seeded by init, the scope it holds has,
\* for every provider of MINIMUM_VERSIONS with a non-empty table, the
\* minimum version as a key: the backfill of setSharedScope has run on it.
C25_ContainerSeedBackfills ==
  (sharedScope.seeded /\ ~accScope.seeded) =>
    \A name \in DOMAIN MINIMUM_VERSIONS :
      (sharedScope.entry[name].present
         /\ sharedScope.entry[name].versions # <<>>) =>
        HasKey(sharedScope.entry[name].versions, MINIMUM_VERSIONS[name])

\* what the factory of the first version of the provider gives, in the
\* scope the container holds
FirstFactory(name) == sharedScope.entry[name].versions[1].get

\* importShared has resolved `outcome.name` from the container's scope,
\* which has a version of it
ResolvedFromContainer ==
  /\ outcome.by = "importShared"
  /\ outcome.status # "notseeded"
  /\ sharedScope.seeded
  /\ sharedScope.entry[outcome.name].present
  /\ sharedScope.entry[outcome.name].versions # <<>>

\* C21: importShared resolves to the module V itself when the factory of
\* the selected version returns V, a promise of V, or a promise of a
\* function that returns V; it awaits once and calls once and no more, so a
\* promise of a function that returns a function that returns V resolves
\* to that inner function.
C21_ResolveUnwraps ==
  ResolvedFromContainer =>
    \A b \in {"V", "W"} :
      /\ FirstFactory(outcome.name)
           \in {<<b>>, <<"promise", b>>, <<"promise", "fn", b>>} =>
             outcome.status = "ok" /\ outcome.value = <<b>>
      /\ FirstFactory(outcome.name) = <<"promise", "fn", "fn", b>> =>
             outcome.status = "ok" /\ outcome.value = <<"fn", b>>

\* a promise of a function was resolved to the module the function returns
C21_Witness ==
  /\ ResolvedFromContainer
  /\ FirstFactory(outcome.name) = <<"promise", "fn", "V">>
  /\ outcome.value = <<"V">>
  /\ factoryLog # <<>>

\* a step in which a module was resolved
ResolveStep == outcome'.n # outcome.n

\* the resolution of the step failed as `status`, called no factory and
\* left the stored scopes as they were
FailedClean(status) ==
  /\ outcome'.status = status
  /\ factoryLog' = factoryLog
  /\ sharedScope' = sharedScope
  /\ accScope' = accScope

\* the way a resolution of the name from the scope has to fail, "none" if
\* it reaches the factory
FailureOf(scope, name) ==
  IF ~scope.seeded THEN "notseeded"
  ELSE IF ~scope.entry[name].present THEN "absent"
  ELSE IF scope.entry[name].versions = <<>> THEN "noversions"
  ELSE IF scope.entry[name].versions[1].get \in {<<>>, <<"null">>}
  THEN "nofactory"
  ELSE "none"

\* C22 as stated: a resolution fails, calls no factory and leaves the stored
\* scope as it was when no scope was ever seeded, when the name is not in
\* the scope, when its table is empty, and when the first version has no
\* callable factory.
C22_FailsWithoutFactory ==
  [][ResolveStep =>
       LET failure == FailureOf(IF outcome'.by = "importShared"
                                THEN sharedScope ELSE accScope, outcome'.name)
       IN failure # "none" => FailedClean(failure)]_vars

\* the resolution of the step failed as `status` and called no factory
FailedNoCall(status) ==
  /\ outcome'.status = status
  /\ factoryLog' = factoryLog

\* C22 amended: importShared with no scope seeded first stores the global
\* default scope if the page has one and resolves from it; in no other way
\* does a resolution change a stored scope.  A resolution from the scope so
\* stored fails and calls no factory when there is no scope, when the name
\* is not in it, when its table is empty, and when the first version has no
\* callable factory.
C22_FailsWithoutFactoryOrAdopts ==
  [][ResolveStep =>
       /\ accScope' = accScope
       /\ \/ sharedScope' = sharedScope
          \/ /\ outcome'.by = "importShared"
             /\ ~sharedScope.seeded /\ sharedScope'.seeded
       /\ LET failure == FailureOf(IF outcome'.by = "importShared"
                                   THEN sharedScope' ELSE accScope, outcome'.name)
          IN failure # "none" => FailedNoCall(failure)]_vars

\* importShared failed for a version without a factory although a second
\* version had one
C22_Witness ==
  /\ outcome.by = "importShared"
  /\ outcome.status = "nofactory"
  /\ factoryLog = <<>>
  /\ sharedScope.seeded
  /\ Len(sharedScope.entry[outcome.name].versions) = 2
  /\ sharedScope.entry[outcome.name].versions[2].get = <<"W">>

\* the scope has a first version of the name and its factory can be called
HasFactory(scope, name) ==
  /\ scope.seeded
  /\ scope.entry[name].present
  /\ scope.entry[name].versions # <<>>
  /\ scope.entry[name].versions[1].get \notin {<<>>, <<"null">>}

\* C29: a resolution of a name whose first version, in the order the table
\* lists its keys, has a callable factory calls that factory once and no
\* other, whatever was resolved before: every such resolution adds one call
\* of the first version's factory to the calls made so far.
C29_FirstVersionCalledEachTime ==
  [][ResolveStep =>
       LET scope == IF outcome'.by = "importShared" THEN sharedScope' ELSE accScope
           name == outcome'.name
       IN HasFactory(scope, name) =>
            factoryLog' = Append(factoryLog,
                                 <<name, scope.entry[name].versions[1].key>>)]_vars

\* the same name was resolved MaxResolves times from a table with two
\* versions, and the factory of the first was called each time
C29_Witness ==
  /\ outcome.n = MaxResolves
  /\ outcome.by = "importShared"
  /\ Len(factoryLog) = MaxResolves
  /\ \A i \in 1..Len(factoryLog) : factoryLog[i] = factoryLog[1]
  /\ Len(sharedScope.entry[outcome.name].versions) = 2
  /\ factoryLog[1][2] = sharedScope.entry[outcome.name].versions[1].key

\* C31 (SpecShow): the answer to a bare "%chat model" or "%chat models"
\* names the session's modelName as the current model exactly when the
\* session is initialized, names getDefaultModel() as the default
\* otherwise, and leaves the session, the engines and the stored default as
\* they were.
C31_BareModelReports ==
  [][\A t \in Tasks :
       (task[t].pc = "idle" /\ task'[t].out.kind = "show") =>
         /\ task'[t].out.status = "current" <=> initialized
         /\ initialized => task'[t].out.name = modelName
         /\ ~initialized =>
              /\ task'[t].out.status = "default"
              /\ task'[t].out.name = getDefaultModel
         /\ session' = session /\ eng' = eng
         /\ settingsDefaultModel' = settingsDefaultModel]_vars

\* the default B of the settings was reported while the first model was
\* still loading and the session already had a name
C31_Witness ==
  \E t \in Tasks :
    /\ task[t].out.kind = "show"
    /\ task[t].out.status = "default" /\ task[t].out.name = "B"
    /\ modelName = "A" /\ ~initialized /\ initializationPromise # 0

\* the send has asked an engine for a completion and has not returned
Streaming(t) == task[t].pc \in {"s_create", "s_stream"}

\* C32: setModel neither waits for nor ends a send that is in flight: a
\* send that has asked an engine for its stream is moved only by that
\* engine's stream (its creation, its end, its failure), never by a step
\* that changes the session or calls unload, and it keeps the engine it
\* asked; the switch shows in the engine that later sends ask.
C32_SwitchLeavesSendsInFlight ==
  [][\A t \in Tasks :
       Streaming(t) =>
         \/ task'[t] = task[t]
         \/ /\ session' = session /\ eng' = eng
            /\ task'[t].sEng = task[t].sEng]_vars

\* unload has been called on the engine a send is still reading from
C32_Witness ==
  \E t \in Tasks :
    /\ task[t].pc = "s_stream"
    /\ eng[task[t].sEng].unloadCalls > 0
    /\ \E u \in Tasks : task[u].op = "setModel" /\ task[u].h = task[t].sEng

\* C33 (SpecContainer): an activate that loads no settings, because it was
\* given no setting registry or because the load failed, still ends,
\* registers the kernel whenever kernelspecs.register can be called, and
\* leaves the stored default as it was, so that with no default stored
\* getDefaultModel() is DEFAULT_WEBLLM_MODEL.
C33_SettingsOptional ==
  [][(load.pc = "exported" /\ load'.pc = "activated" /\ load'.loaded = NULL) =>
       /\ load'.registered = load'.kernelspecs
       /\ settingsDefaultModel' = settingsDefaultModel
       /\ settingsDefaultModel = NULL => getDefaultModel' = DEFAULT_WEBLLM_MODEL]_vars

\* the kernel was registered by an activate whose settings load had failed
C33_Witness ==
  /\ load.pc = "activated"
  /\ load.settingRegistry = "settingRegistry" /\ load.loaded = NULL
  /\ load.registered
  /\ settingsDefaultModel = NULL

\* C34: whenever the session is initialized with an engine, modelName is
\* the model id that engine was constructed with.
C34_NameIsResidentModel ==
  (initialized /\ engine # 0) => eng[engine].model = modelName

\* the send found an initialization in flight when it was called and
\* waited for it
WaitedForInFlight(t) ==
  task[t].op = "send" /\ task[t].via \in {"same", "other"}

\* C35: a send that is called while an initialization is in flight (the one
\* a setModel has started) waits for it, starts no construction of its own,
\* and then asks the engine of that initialization for its completion.
C35_SendJoinsSwitch ==
  \A t \in Tasks :
    WaitedForInFlight(t) =>
      /\ task[t].pc # "im_wait_own"
      /\ Streaming(t) => task[t].sEng = task[t].aw

\* C36: unload is called at most once on every engine, and a setModel that
\* is about to clear the session after its unload (lines 322-324) finds no
\* initialization in flight: it has started none itself, so one in flight
\* would be another caller's.
C36_UnloadOncePerEngine ==
  /\ \A k \in Engines : eng[k].unloadCalls <= 1
  /\ \A t \in Tasks :
       task[t].pc = "sm_unloaded" =>
         (initializationPromise = 0 \/ ~Unsettled(initializationPromise))


\* C37 (SpecSettings): in a session that is initialized with an engine, a
\* change of the stored default changes nothing of the session, of the
\* engines or of the callers, and while no setModel has been called at all
\* no step replaces the engine or the modelName the later sends stream with.
C37_SettingsLeaveReadySession ==
  [][(initialized /\ engine # 0) =>
       /\ settingsDefaultModel' # settingsDefaultModel =>
            session' = session /\ eng' = eng /\ task' = task
       /\ ~setModelCalled' =>
            engine' = engine /\ modelName' = modelName]_vars


\* C38 (SpecPlugin): the stored default is unset or a model of the catalog,
\* whatever the settings hold and whatever the dialog returns, so that
\* getDefaultModel() is always a model of the catalog.
C38_StoredDefaultInCatalog ==
  /\ settingsDefaultModel = NULL \/ isValidWebLLMModel(settingsDefaultModel)
  /\ isValidWebLLMModel(getDefaultModel)

\* activate read a setting that is not in the catalog and stored nothing;
\* the dialog has stored a model since
C38_Witness ==
  /\ load.pc = "activated" /\ load.loaded \in {"", "X"}
  /\ settingsDefaultModel = "B"


\* C39 (SpecContainer): with the host passing the optional services in the
\* order of the `optional` list, activate's settingRegistry parameter holds
\* the setting registry or nothing and its formRendererRegistry parameter
\* holds the form renderer registry or nothing, whichever optional tokens
\* the loader could import.
C39_OptionalArgsInPosition ==
  load.pc = "activated" =>
    /\ load.settingRegistry \in {NULL, "settingRegistry"}
    /\ load.formRendererRegistry \in {NULL, "formRendererRegistry"}


\* the scope as it was given to setSharedScope, before the backfill
GivenScope == [accScope EXCEPT !.entry = accScope.given]

\* C40 (SpecBackfill): for every provider name, a resolution against the
\* stored, backfilled scope ends the same way, returns the same value and
\* calls the factory of the same version as a resolution against the scope
\* as it was given.
C40_BackfillKeepsResolution ==
  accScope.seeded =>
    \A name \in Names :
      /\ getSharedModule(accScope, name) = getSharedModule(GivenScope, name)
      /\ importSharedModule(accScope, name) = importSharedModule(GivenScope, name)

====
